---------------------------- MODULE Spec2Model ----------------------------
(***************************************************************************)
(* The DEX indexer (src/unnamed/part_002): a polling loop that scans the   *)
(* factory for pools, extracts Swap logs of a block range, reads the token *)
(* balances of every pool and writes three tables (src/supabase-schema.sql)*)
(* swap_events, pools and price_history.                                   *)
(*                                                                         *)
(* Every await of the indexer is a point where the chain, the clock and    *)
(* another indexer instance can move; the actions below are the runs of    *)
(* code between the awaits that matter for the tables.                     *)
(*                                                                         *)
(* Numbers: JavaScript doubles are modelled as exact rationals <<n, d>>,   *)
(* BigInt values as integers.  Raw balances are kept small so that TLC's   *)
(* 32-bit integers hold every intermediate product.                        *)
(***************************************************************************)
EXTENDS Integers, Sequences, FiniteSets, TLC

(***************************************************************************)
(* Bounds of the model.                                                    *)
(***************************************************************************)
MaxNewBlocks == 2
MaxTicks == 3
MaxBal == 2
TknDecimals == 4
MaxPools == 3

(***************************************************************************)
(* Program constants.                                                      *)
(***************************************************************************)
LOOK_BACK == 10000
THROTTLE_MS == 60000
USDC_DECIMALS == 6
DEFAULT_DECIMALS == 18
DUST_EXP == 6
QUERY_LIMIT == 10000

\* One clock step is half the throttle window (30 s), in milliseconds.
ClockStep == THROTTLE_MS \div 2

(***************************************************************************)
(* Addresses.  The chain answers with checksummed (mixed-case) addresses;  *)
(* the indexer lower-cases them before it uses them as keys.               *)
(***************************************************************************)
USDC_ADDRESS == "0x3600000"
TKN == "0xTkN0001"
P1 == "0xPooL001"
P2 == "0xPooL002"
TK2 == "0xTkN0002"
TK3 == "0xTkN0003"
P3 == "0xPooL003"
P4 == "0xPooL004"
P5 == "0xPooL005"
ZERO_ADDRESS == "0x0000000"
FACTORY_ADDRESS == "0x10E949c"
\* A token of the static table, as the table spells it and as the chain does.
RAC == "0x12dfe2b"
RAC_CHECKSUM == "0x12DFe2B"

toLowerCase(a) ==
    CASE a = "0xTkN0001" -> "0xtkn0001"
      [] a = "0xPooL001" -> "0xpool001"
      [] a = "0xPooL002" -> "0xpool002"
      [] a = "0xTkN0002" -> "0xtkn0002"
      [] a = "0xTkN0003" -> "0xtkn0003"
      [] a = "0xPooL003" -> "0xpool003"
      [] a = "0xPooL004" -> "0xpool004"
      [] a = "0xPooL005" -> "0xpool005"
      [] a = "0x10E949c" -> "0x10e949c"
      [] a = "0x12DFe2B" -> "0x12dfe2b"
      [] OTHER -> a

\* tokenAddress.slice(0, 6) + '...'
PseudoSymbol(a) ==
    CASE a \in {"0xTkN0001", "0xTkN0002", "0xTkN0003"} -> "0xTkN0..."
      [] a = "0x3600000" -> "0x3600..."
      [] a = "0x12dfe2b" -> "0x12df..."
      [] a = "0x12DFe2B" -> "0x12DF..."
      [] OTHER -> "0x????..."

PoolAddrs == {P1, P2}
\* Three more pools, none with a USDC leg: TKN/TK2, TK2/TK3 and TK3/TKN.
AllPools == PoolAddrs \cup {P3, P4, P5}
Tokens == {USDC_ADDRESS, TKN, TK2, TK3}
Instances == {1, 2}

\* The pool contract's immutable token pair: tokenA() and tokenB().
PoolTokenA(p) ==
    CASE p = P1 -> USDC_ADDRESS
      [] p = P4 -> TK2
      [] p = P5 -> TK3
      [] OTHER -> TKN
PoolTokenB(p) ==
    CASE p = P1 -> TKN
      [] p = P3 -> TK2
      [] p = P4 -> TK3
      [] p = P5 -> TKN
      [] OTHER -> USDC_ADDRESS

\* What the ERC20 contract of a token answers to symbol() and decimals().
ChainSymbol(t) ==
    CASE t = TKN -> "TKN" [] t = TK2 -> "TK2" [] t = TK3 -> "TK3" [] OTHER -> "USDC"
ChainDecimals(t) ==
    CASE t = TKN -> TknDecimals
      [] t = TK2 -> TknDecimals
      [] t = TK3 -> TknDecimals
      [] OTHER -> USDC_DECIMALS

KNOWN_TOKENS == {USDC_ADDRESS, RAC}
KnownInfo(t) ==
    IF t = RAC THEN [symbol |-> "RAC", decimals |-> DEFAULT_DECIMALS]
    ELSE [symbol |-> "USDC", decimals |-> USDC_DECIMALS]

NullVal == <<>>

(***************************************************************************)
(* Arithmetic: exact rationals in lowest terms stand for doubles.          *)
(***************************************************************************)
RECURSIVE GCD(_, _)
GCD(a, b) == IF b = 0 THEN a ELSE GCD(b, a % b)

RECURSIVE Pow10(_)
Pow10(e) == IF e = 0 THEN 1 ELSE 10 * Pow10(e - 1)

Rat(n, d) == LET g == GCD(n, d) IN IF n = 0 THEN <<0, 1>> ELSE <<n \div g, d \div g>>
RMul(x, y) ==
    LET g1 == GCD(x[1], y[2])
        g2 == GCD(y[1], x[2])
    IN  IF x[1] = 0 \/ y[1] = 0 THEN <<0, 1>>
        ELSE Rat((x[1] \div g1) * (y[1] \div g2), (x[2] \div g2) * (y[2] \div g1))
RDiv(x, y) == RMul(x, <<y[2], y[1]>>)
RAdd(x, y) ==
    LET g == GCD(x[2], y[2])
    IN  Rat(x[1] * (y[2] \div g) + y[1] * (x[2] \div g), (x[2] \div g) * y[2])
RGt(x, y) == x[1] * y[2] > y[1] * x[2]
RZero == <<0, 1>>
ROne == <<1, 1>>

\* Number(raw) / (10 ** decimals)
Formatted(raw, decimals) == Rat(raw, Pow10(decimals))

\* The literal 0.000001 of the dust test.
DUST == Rat(1, Pow10(DUST_EXP))

\* BigInt.prototype.toString(): the decimal digits, most significant first.
RECURSIVE toString(_)
toString(n) ==
    IF n < 10 THEN <<n>> ELSE Append(toString(n \div 10), n % 10)


(***************************************************************************)
(* The chain: Swap logs that can be mined, one transaction each.           *)
(***************************************************************************)
SwapLogs == {"s1", "s2"}
PlainPool == [l \in {"s1", "s2"} |-> IF l = "s1" THEN P1 ELSE P2]
TxHashes == {"0xaa", "0xbb"}
SwapArgs(a, b, c, d) == [amountAIn |-> a, amountBIn |-> b, amountAOut |-> c, amountBOut |-> d]

\* An ordinary history: one swap of tokenA in and one of tokenB in, each in
\* a transaction of its own.
PlainArgs == [l \in SwapLogs |-> IF l = "s1" THEN SwapArgs(5, 0, 0, 3) ELSE SwapArgs(0, 7, 2, 0)]
PlainTx == [l \in SwapLogs |-> IF l = "s1" THEN "0xaa" ELSE "0xbb"]

\* The amounts a Swap log can carry (uint256, so never negative): tokenA in,
\* tokenB in, both in (a flash swap repaid in both tokens) and none in.
ArgChoices == {SwapArgs(5, 0, 0, 3), SwapArgs(0, 7, 2, 0), SwapArgs(5, 7, 2, 3), SwapArgs(0, 0, 2, 3)}

InitHead == LOOK_BACK

\* Blocks are one second apart; the chain's clock is such that block
\* InitHead + 2 is the first block of a calendar day (UTC).
DAY_S == 24 * 60 * 60
GenesisS == DAY_S - (InitHead + 2)
BlockTimestampS(b) == GenesisS + b

\* Number(block.timestamp) * 1000 of getBlock({blockNumber}).
BlockTimestampMs(b) == BlockTimestampS(b) * 1000
MaxHead == InitHead + MaxNewBlocks
MaxClock == MaxTicks * ClockStep

VARIABLES
    head,               \* the chain's latest block number
    swapArgs,           \* Swap log -> its args (amountAIn, amountBIn, amountAOut, amountBOut)
    txOf,               \* Swap log -> hash of the transaction that emits it
    logPool,            \* Swap log -> the pool that emits it
    minedAt,            \* Swap log -> block that holds it (0: not mined yet)
    factory,            \* the factory's allPools array
    createdAt,          \* pool -> block of its PoolCreated log (0: before the look-back)
    bal,                \* pool -> <<balanceOf(pool) on tokenA, on tokenB>>
    cached,             \* pool -> <<reserveA, reserveB>>, the pool contract's own counters
    clock,              \* wall clock, milliseconds
    env,                \* instance -> process.env as the process was started with
    swap_events,        \* table swap_events: sequence of rows
    pools,              \* table pools: sequence of rows
    price_history,      \* table price_history: sequence of rows
    pc,                 \* instance -> where its run loop stands
    lastProcessedBlock, \* instance -> the cursor (NullVal: null)
    knownPools,         \* instance -> set of lower-cased pool addresses
    cyc,                \* instance -> the locals of index() and storePoolData()
    obs,                \* instance -> what the current cycle has done (history)
    ui                  \* the Pools page: its pool list and what it last computed

logVars == <<swapArgs, txOf, logPool, env>>
chainVars == <<head, minedAt, factory, createdAt, bal, cached, clock, swapArgs, txOf, logPool, env>>
storeVars == <<swap_events, pools, price_history>>
procVars == <<pc, lastProcessedBlock, knownPools, cyc, obs>>
vars == <<head, minedAt, factory, createdAt, bal, cached, clock, swapArgs, txOf, logPool, env,
          swap_events, pools, price_history,
          pc, lastProcessedBlock, knownPools, cyc, obs, ui>>

NoCycle ==
    [pools |-> <<>>, currentBlock |-> 0, fromBlock |-> 0, toBlock |-> 0,
     allSwapEvents |-> <<>>, k |-> 0, snap |-> NullVal]

NoObs ==
    [advanced |-> FALSE, rpcFailed |-> FALSE, storeFailed |-> FALSE,
     threw |-> FALSE, scanned |-> {}, reconciled |-> {}, done |-> <<>>,
     reads |-> {}, wrote |-> {}]

LogTx(l) == txOf[l]
LogArgs(l) == swapArgs[l]
LogPool(l) == logPool[l]

\* process.env: the store credentials the process reads at load time
\* ('' stands for an unset variable, as `process.env.X || ''` makes it).
STORE_URL == "https://store"
STORE_KEY == "anon-key"
Configured == [SUPABASE_URL |-> STORE_URL, SUPABASE_ANON_KEY |-> STORE_KEY]
EnvChoices == [SUPABASE_URL : {"", STORE_URL}, SUPABASE_ANON_KEY : {"", STORE_KEY}]
SUPABASE_URL(i) == env[i].SUPABASE_URL
SUPABASE_KEY(i) == env[i].SUPABASE_ANON_KEY

\* The indexer once its start-up validation has passed, on empty tables.
InitProcess ==
    /\ env = [i \in Instances |-> Configured]
    /\ swap_events = <<>>
    /\ pools = <<>>
    /\ price_history = <<>>
    /\ pc = [i \in Instances |-> "idle"]
    /\ lastProcessedBlock = [i \in Instances |-> NullVal]
    /\ knownPools = [i \in Instances |-> {}]
    /\ cyc = [i \in Instances |-> NoCycle]
    /\ obs = [i \in Instances |-> NoObs]

\* The state at process start, whatever the Swap logs to come carry.
InitRest ==
    /\ head = InitHead
    /\ minedAt = [l \in SwapLogs |-> 0]
    /\ factory = <<P1>>
    /\ createdAt = [p \in AllPools |-> 0]
    /\ bal = [p \in AllPools |-> <<2, 1>>]
    /\ cached = [p \in AllPools |-> <<2, 1>>]
    /\ clock = 0
    /\ InitProcess

\* The Pools page before it has loaded anything.
NoUi ==
    [pools |-> <<>>, by |-> "", token |-> NullVal, failPools |-> {},
     returns |-> TRUE, price |-> NullVal, reads |-> {}, tvl |-> NullVal,
     pool |-> NullVal, hasLiquidity |-> FALSE, row |-> NullVal,
     contract |-> NullVal, now |-> 0, snapshot |-> <<>>,
     totalVolume |-> NullVal, totalFees |-> NullVal, dailyMap |-> <<>>]

Init ==
    /\ swapArgs = PlainArgs
    /\ txOf = PlainTx
    /\ logPool = PlainPool
    /\ ui = NoUi
    /\ InitRest

\* The first process as it is launched, with any of the store credentials unset.
InitBoot ==
    /\ swapArgs = PlainArgs
    /\ txOf = PlainTx
    /\ logPool = PlainPool
    /\ ui = NoUi
    /\ head = InitHead
    /\ minedAt = [l \in SwapLogs |-> 0]
    /\ factory = <<P1>>
    /\ createdAt = [p \in AllPools |-> 0]
    /\ bal = [p \in AllPools |-> <<2, 1>>]
    /\ cached = [p \in AllPools |-> <<2, 1>>]
    /\ clock = 0
    /\ env \in {e \in [Instances -> EnvChoices] : e[2] = Configured}
    /\ swap_events = <<>>
    /\ pools = <<>>
    /\ price_history = <<>>
    /\ pc = [i \in Instances |-> "boot"]
    /\ lastProcessedBlock = [i \in Instances |-> NullVal]
    /\ knownPools = [i \in Instances |-> {}]
    /\ cyc = [i \in Instances |-> NoCycle]
    /\ obs = [i \in Instances |-> NoObs]

\* Any amounts in the Swap logs, and logs that may share one transaction.
InitSwaps ==
    /\ swapArgs \in [SwapLogs -> ArgChoices]
    /\ txOf \in [SwapLogs -> TxHashes]
    /\ logPool = PlainPool
    /\ ui = NoUi
    /\ InitRest

(***************************************************************************)
(* The environment: blocks, swaps, pool creation, transfers, time.         *)
(***************************************************************************)
NewBlock ==
    /\ head < MaxHead
    /\ head' = head + 1
    /\ UNCHANGED <<minedAt, factory, createdAt, bal, cached, clock>>
    /\ UNCHANGED <<logVars, storeVars, procVars, ui>>

SeqToSet(s) == {s[n] : n \in 1 .. Len(s)}

\* The transaction of log l is mined: all of its logs land in one block.
MineSwap(l) ==
    LET same == {m \in SwapLogs : txOf[m] = txOf[l]}
    IN  /\ head < MaxHead
        /\ \A m \in same : minedAt[m] = 0 /\ LogPool(m) \in SeqToSet(factory)
        /\ head' = head + 1
        /\ minedAt' = [m \in SwapLogs |-> IF m \in same THEN head + 1 ELSE minedAt[m]]
        /\ UNCHANGED <<factory, createdAt, bal, cached, clock>>
        /\ UNCHANGED <<logVars, storeVars, procVars, ui>>

\* The head the provider reports goes backwards: a reorganisation, or the
\* next call answered by a node that lags behind.
HeadBack ==
    /\ head >= InitHead
    /\ head' = head - 1
    /\ UNCHANGED <<minedAt, factory, createdAt, bal, cached, clock>>
    /\ UNCHANGED <<logVars, storeVars, procVars, ui>>

\* The factory appends the pool to allPools and emits PoolCreated.
CreatePool(p) ==
    /\ head < MaxHead
    /\ p \notin SeqToSet(factory)
    /\ head' = head + 1
    /\ factory' = Append(factory, p)
    /\ createdAt' = [createdAt EXCEPT ![p] = head + 1]
    /\ UNCHANGED <<minedAt, bal, cached, clock>>
    /\ UNCHANGED <<logVars, storeVars, procVars, ui>>

\* Tokens move in or out of the pool (a swap, liquidity, a plain transfer).
Transfer(p, a, b) ==
    /\ bal[p] # <<a, b>>
    /\ bal' = [bal EXCEPT ![p] = <<a, b>>]
    /\ UNCHANGED <<head, minedAt, factory, createdAt, cached, clock>>
    /\ UNCHANGED <<logVars, storeVars, procVars, ui>>

\* The pool contract's _update() sets its counters from transaction inputs.
Update(p, a, b) ==
    /\ cached[p] # <<a, b>>
    /\ cached' = [cached EXCEPT ![p] = <<a, b>>]
    /\ UNCHANGED <<head, minedAt, factory, createdAt, bal, clock>>
    /\ UNCHANGED <<logVars, storeVars, procVars, ui>>

Tick ==
    /\ clock < MaxClock
    /\ clock' = clock + ClockStep
    /\ UNCHANGED <<head, minedAt, factory, createdAt, bal, cached>>
    /\ UNCHANGED <<logVars, storeVars, procVars, ui>>

(***************************************************************************)
(* The indexer's functions, as operators on what they read.                *)
(***************************************************************************)
Falsy(block) == block = NullVal \/ block = <<0>>

\* fetchAllPools: countOk is whether allPoolsLength answered, failIdx the
\* indices whose allPools(i) read threw.  The result is the local list; the
\* lower-cased addresses of the same pools go to knownPools.
RECURSIVE ScanFactory(_, _)
ScanFactory(n, failIdx) ==
    IF n = 0 THEN <<>>
    ELSE LET rest == ScanFactory(n - 1, failIdx)
         IN  IF n \in failIdx \/ factory[n] = ZERO_ADDRESS
             THEN rest
             ELSE Append(rest, factory[n])

fetchAllPools(countOk, failIdx) ==
    IF countOk THEN ScanFactory(Len(factory), failIdx) ELSE <<>>

\* The Swap logs of a pool inside [fromBlock, toBlock], in chain order.
LogsInRange(poolAddress, fromBlock, toBlock) ==
    {l \in SwapLogs : /\ LogPool(l) = poolAddress
                      /\ minedAt[l] # 0
                      /\ fromBlock <= minedAt[l]
                      /\ minedAt[l] <= toBlock}

RECURSIVE ChainOrder(_)
ChainOrder(S) ==
    IF S = {} THEN <<>>
    ELSE LET first == CHOOSE l \in S : \A m \in S : minedAt[l] <= minedAt[m]
         IN  <<first>> \o ChainOrder(S \ {first})

\* The direction test with tokenB's in-amount tried first.
NormalizeSwapBFirst(poolAddress, l) ==
    LET args == LogArgs(l)
        common == [poolAddress |-> poolAddress,
                   timestamp |-> BlockTimestampMs(minedAt[l]),
                   txHash |-> LogTx(l),
                   blockNumber |-> minedAt[l]]
    IN  IF args.amountBIn > 0
        THEN <<common @@
               [tokenIn |-> PoolTokenB(poolAddress), tokenOut |-> PoolTokenA(poolAddress),
                amountIn |-> args.amountBIn, amountOut |-> args.amountAOut]>>
        ELSE IF args.amountAIn > 0
        THEN <<common @@
               [tokenIn |-> PoolTokenA(poolAddress), tokenOut |-> PoolTokenB(poolAddress),
                amountIn |-> args.amountAIn, amountOut |-> args.amountBOut]>>
        ELSE <<>>

\* The direction test of processSwapEvents; NullVal when the log is skipped.
NormalizeSwap(poolAddress, l) ==
    LET args == LogArgs(l)
        tokenA == PoolTokenA(poolAddress)
        tokenB == PoolTokenB(poolAddress)
        common == [poolAddress |-> poolAddress,
                   timestamp |-> BlockTimestampMs(minedAt[l]),
                   txHash |-> LogTx(l),
                   blockNumber |-> minedAt[l]]
    IN  IF args.amountAIn > 0
        THEN <<common @@
               [tokenIn |-> tokenA, tokenOut |-> tokenB,
                amountIn |-> args.amountAIn, amountOut |-> args.amountBOut]>>
        ELSE IF args.amountBIn > 0
        THEN <<common @@
               [tokenIn |-> tokenB, tokenOut |-> tokenA,
                amountIn |-> args.amountBIn, amountOut |-> args.amountAOut]>>
        ELSE <<>>

RECURSIVE NormalizeAll(_, _)
NormalizeAll(poolAddress, logs) ==
    IF logs = <<>> THEN <<>>
    ELSE NormalizeSwap(poolAddress, Head(logs)) \o NormalizeAll(poolAddress, Tail(logs))

\* processSwapEvents: ok is whether getLogs, tokenA/tokenB and every getBlock
\* answered; any throw is caught and the pool yields no events.
processSwapEvents(poolAddress, fromBlock, toBlock, ok) ==
    IF ok
    THEN NormalizeAll(poolAddress, ChainOrder(LogsInRange(poolAddress, fromBlock, toBlock)))
    ELSE <<>>

\* The loop of index() over the cycle's pool list; failPools are the pools
\* whose processSwapEvents caught an error.
RECURSIVE ExtractAll(_, _, _, _)
ExtractAll(list, fromBlock, toBlock, failPools) ==
    IF list = <<>> THEN <<>>
    ELSE processSwapEvents(Head(list), fromBlock, toBlock, Head(list) \notin failPools)
         \o ExtractAll(Tail(list), fromBlock, toBlock, failPools)

\* The row storeSwapEvents sends for an event.
SwapRow(event) ==
    [tx_hash |-> event.txHash,
     pool_address |-> toLowerCase(event.poolAddress),
     token_in |-> toLowerCase(event.tokenIn),
     token_out |-> toLowerCase(event.tokenOut),
     amount_in |-> toString(event.amountIn),
     amount_out |-> toString(event.amountOut),
     block_number |-> toString(event.blockNumber),
     timestamp |-> event.timestamp]

\* A plain insert, with no conflict target and no unique index to stop it.
InsertSwapEvent(tbl, row) == Append(tbl, row)

\* supabase.from('swap_events').upsert(row, {onConflict: 'tx_hash'}) against
\* tx_hash TEXT UNIQUE.
UpsertSwapEvent(tbl, row) ==
    LET Same(r) == r.tx_hash = row.tx_hash
    IN  IF \E n \in 1 .. Len(tbl) : Same(tbl[n])
        THEN [n \in 1 .. Len(tbl) |-> IF Same(tbl[n]) THEN row ELSE tbl[n]]
        ELSE Append(tbl, row)

\* storeSwapEvents: the upserts of the events, in order; failIdx are the
\* positions whose upsert did not reach the table.
RECURSIVE storeSwapEvents(_, _, _, _)
storeSwapEvents(tbl, events, n, failIdx) ==
    IF n > Len(events) THEN tbl
    ELSE storeSwapEvents(
             IF n \in failIdx THEN tbl ELSE UpsertSwapEvent(tbl, SwapRow(events[n])),
             events, n + 1, failIdx)

\* getTokenInfo: symbolRead and decimalsRead are what symbol() and decimals()
\* answered, <<v>>, or <<>> for a read that threw.
getTokenInfo(tokenAddress, symbolRead, decimalsRead) ==
    LET tokenLower == toLowerCase(tokenAddress)
    IN  IF \E addr \in KNOWN_TOKENS : toLowerCase(addr) = tokenLower
        THEN KnownInfo(CHOOSE addr \in KNOWN_TOKENS : toLowerCase(addr) = tokenLower)
        ELSE [symbol |-> IF symbolRead = <<>> \/ symbolRead = <<"">>
                         THEN PseudoSymbol(tokenAddress)
                         ELSE symbolRead[1],
              decimals |-> IF decimalsRead = <<>> \/ decimalsRead = <<0>>
                           THEN DEFAULT_DECIMALS
                           ELSE decimalsRead[1]]

\* The contract reads getTokenInfo issues for the address.
getTokenInfoReads(tokenAddress) ==
    IF \E addr \in KNOWN_TOKENS : toLowerCase(addr) = toLowerCase(tokenAddress)
    THEN {}
    ELSE {[fn |-> "symbol", address |-> tokenAddress],
          [fn |-> "decimals", address |-> tokenAddress]}

\* getTokenInfo with both contract reads answered.
TokenInfo(t) == getTokenInfo(t, <<ChainSymbol(t)>>, <<ChainDecimals(t)>>)

RpcRead(fn, address, arg, value) ==
    [fn |-> fn, address |-> address, arg |-> arg, value |-> value]

\* The pool contract's reserveA() and reserveB(), counters being what the
\* pool contracts hold (the variable cached).
ReadPoolReserves(counters, poolAddress) ==
    [reserveA |-> counters[poolAddress][1],
     reserveB |-> counters[poolAddress][2],
     reads |-> {RpcRead("reserveA", poolAddress, "", counters[poolAddress][1]),
                RpcRead("reserveB", poolAddress, "", counters[poolAddress][2])}]

\* getTokenPriceInUSD past its USDC test: the loop over the pool list.
\* failPools are the pools for which a read inside the try block threw.
\* The result is the price and the contract reads the loop made for it.
RECURSIVE PriceScan(_, _, _, _)
PriceScan(counters, tokenAddress, list, failPools) ==
    IF list = <<>> THEN [price |-> RZero, reads |-> {}]
    ELSE
      LET poolAddress == Head(list)
          rest == PriceScan(counters, tokenAddress, Tail(list), failPools)
          tokenA == PoolTokenA(poolAddress)
          tokenB == PoolTokenB(poolAddress)
          tokenALower == toLowerCase(tokenA)
          tokenBLower == toLowerCase(tokenB)
          tokenAddrLower == toLowerCase(tokenAddress)
          usdcLower == toLowerCase(USDC_ADDRESS)
          r == ReadPoolReserves(counters, poolAddress)
          more == [price |-> rest.price, reads |-> r.reads \cup rest.reads]
      IN  IF poolAddress \in failPools THEN rest
          ELSE IF tokenALower = usdcLower /\ tokenBLower = tokenAddrLower
          THEN LET reserveAFormatted == Formatted(r.reserveA, USDC_DECIMALS)
                   reserveBFormatted == Formatted(r.reserveB, TokenInfo(tokenB).decimals)
               IN  IF RGt(reserveBFormatted, RZero)
                   THEN [price |-> RDiv(reserveAFormatted, reserveBFormatted),
                         reads |-> r.reads]
                   ELSE more
          ELSE IF tokenBLower = usdcLower /\ tokenALower = tokenAddrLower
          THEN LET reserveAFormatted == Formatted(r.reserveA, TokenInfo(tokenA).decimals)
                   reserveBFormatted == Formatted(r.reserveB, USDC_DECIMALS)
               IN  IF RGt(reserveAFormatted, RZero)
                   THEN [price |-> RDiv(reserveBFormatted, reserveAFormatted),
                         reads |-> r.reads]
                   ELSE more
          ELSE rest

\* The loop alone, without the USDC test before it.
PriceLookupByPools(counters, tokenAddress, list, failPools) ==
    PriceScan(counters, tokenAddress, list, failPools)

PriceLookup(counters, tokenAddress, list, failPools) ==
    IF toLowerCase(tokenAddress) = toLowerCase(USDC_ADDRESS)
    THEN [price |-> ROne, reads |-> {}]
    ELSE PriceScan(counters, tokenAddress, list, failPools)

getTokenPriceInUSD(tokenAddress, list, failPools) ==
    PriceLookup(cached, tokenAddress, list, failPools).price

\* The reserves taken from the pool contract's counters instead.
ReadBalancesFromCounters(poolAddress) ==
    [reserveA |-> cached[poolAddress][1],
     reserveB |-> cached[poolAddress][2],
     reads |-> ReadPoolReserves(cached, poolAddress).reads]

\* The two balanceOf reads of storePoolData.
ReadBalances(poolAddress) ==
    [reserveA |-> bal[poolAddress][1],
     reserveB |-> bal[poolAddress][2],
     reads |-> {RpcRead("balanceOf", PoolTokenA(poolAddress), poolAddress, bal[poolAddress][1]),
                RpcRead("balanceOf", PoolTokenB(poolAddress), poolAddress, bal[poolAddress][2])}]

\* The liquidity test with zero in place of the dust threshold.
HasAnyBalance(reserveAFormatted, reserveBFormatted) ==
    RGt(reserveAFormatted, RZero) /\ RGt(reserveBFormatted, RZero)

\* The test "Only store pools with liquidity".
HasLiquidity(reserveAFormatted, reserveBFormatted) ==
    RGt(reserveAFormatted, DUST) /\ RGt(reserveBFormatted, DUST)

\* What one iteration of storePoolData's loop computes from its reads, the
\* pool contracts holding counters.
PoolDataOn(counters, poolAddress, list, failPools, now) ==
    LET tokenA == PoolTokenA(poolAddress)
        tokenB == PoolTokenB(poolAddress)
        r == ReadBalances(poolAddress)
        tokenAInfo == TokenInfo(tokenA)
        tokenBInfo == TokenInfo(tokenB)
        priceA == PriceLookup(counters, tokenA, list, failPools)
        priceB == PriceLookup(counters, tokenB, list, failPools)
        reserveAFormatted == Formatted(r.reserveA, tokenAInfo.decimals)
        reserveBFormatted == Formatted(r.reserveB, tokenBInfo.decimals)
        reserveAValue == RMul(reserveAFormatted, priceA.price)
        reserveBValue == RMul(reserveBFormatted, priceB.price)
        totalLiquidity == RAdd(reserveAValue, reserveBValue)
    IN  [hasLiquidity |-> HasLiquidity(reserveAFormatted, reserveBFormatted),
         reads |-> r.reads \cup priceA.reads \cup priceB.reads,
         row |-> [pool_address |-> toLowerCase(poolAddress),
                  token_a |-> toLowerCase(tokenA),
                  token_b |-> toLowerCase(tokenB),
                  token_a_symbol |-> tokenAInfo.symbol,
                  token_b_symbol |-> tokenBInfo.symbol,
                  reserve_a |-> toString(r.reserveA),
                  reserve_b |-> toString(r.reserveB),
                  reserve_a_decimals |-> tokenAInfo.decimals,
                  reserve_b_decimals |-> tokenBInfo.decimals,
                  total_liquidity |-> totalLiquidity],
         \* the row storePriceHistory would insert at time now
         snapshot |-> IF reserveAFormatted[1] = 0 \/ reserveBFormatted[1] = 0
                      THEN NullVal
                      ELSE [pool_address |-> toLowerCase(poolAddress),
                            token_a |-> toLowerCase(tokenA),
                            token_b |-> toLowerCase(tokenB),
                            token_a_symbol |-> tokenAInfo.symbol,
                            token_b_symbol |-> tokenBInfo.symbol,
                            price_a_per_b |-> RDiv(reserveBFormatted, reserveAFormatted),
                            price_b_per_a |-> RDiv(reserveAFormatted, reserveBFormatted),
                            reserve_a |-> toString(r.reserveA),
                            reserve_b |-> toString(r.reserveB),
                            timestamp |-> now]]

PoolData(poolAddress, list, failPools, now) ==
    PoolDataOn(cached, poolAddress, list, failPools, now)

\* supabase.from('pools').upsert(row, {onConflict: 'pool_address'}) against
\* pool_address TEXT UNIQUE.
UpsertPool(tbl, row) ==
    LET Same(r) == r.pool_address = row.pool_address
    IN  IF \E n \in 1 .. Len(tbl) : Same(tbl[n])
        THEN [n \in 1 .. Len(tbl) |-> IF Same(tbl[n]) THEN row ELSE tbl[n]]
        ELSE Append(tbl, row)

\* supabase.from('pools').delete().eq('pool_address', address)
DeletePool(tbl, address) == SelectSeq(tbl, LAMBDA r : r.pool_address # address)

\* The select of storePriceHistory: the newest timestamp of the pool's
\* snapshots, <<ts>>, or <<>> when it has none.
LastSnapshot(tbl, address) ==
    LET ts == {tbl[n].timestamp : n \in {m \in 1 .. Len(tbl) : tbl[m].pool_address = address}}
    IN  IF ts = {} THEN <<>> ELSE <<CHOOSE t \in ts : \A u \in ts : u <= t>>

\* The throttle test: lastSnapshot is what the select's data held (<<>>: null).
ShouldSnapshot(lastSnapshot, now) ==
    lastSnapshot = <<>> \/ (now - lastSnapshot[1]) > THROTTLE_MS

\* supabase.from('price_history').insert(row) against UNIQUE(pool_address, timestamp).
InsertSnapshotRow(tbl, row) ==
    IF \E n \in 1 .. Len(tbl) :
          tbl[n].pool_address = row.pool_address /\ tbl[n].timestamp = row.timestamp
    THEN tbl
    ELSE Append(tbl, row)

(***************************************************************************)
(* The Pools page (src/unnamed/part_001): its price oracle and its TVL.    *)
(* parseFloat(formatUnits(raw, decimals)) is the rational raw / 10^decimals;*)
(* the doubles Infinity and NaN, which a division by a zero reserve gives, *)
(* are the pairs <<1, 0>> and <<0, 0>>.                                    *)
(***************************************************************************)
FInf == <<1, 0>>
FNaN == <<0, 0>>
IsNaN(x) == x[2] = 0 /\ x[1] = 0
IsInf(x) == x[2] = 0 /\ x[1] # 0

\* x / y on non-negative doubles.
FDiv(x, y) ==
    IF IsNaN(x) \/ IsNaN(y) THEN FNaN
    ELSE IF IsInf(y) THEN (IF IsInf(x) THEN FNaN ELSE RZero)
    ELSE IF IsInf(x) THEN FInf
    ELSE IF y[1] = 0 THEN (IF x[1] = 0 THEN FNaN ELSE FInf)
    ELSE RDiv(x, y)

\* x * y on non-negative doubles.
FMul(x, y) ==
    IF IsNaN(x) \/ IsNaN(y) THEN FNaN
    ELSE IF IsInf(x) \/ IsInf(y)
         THEN (IF x = RZero \/ y = RZero THEN FNaN ELSE FInf)
    ELSE RMul(x, y)

\* x + y on non-negative doubles.
FAdd(x, y) ==
    IF IsNaN(x) \/ IsNaN(y) THEN FNaN
    ELSE IF IsInf(x) \/ IsInf(y) THEN FInf
    ELSE RAdd(x, y)

\* x || d: d when x is 0 or NaN.
OrElse(x, d) == IF IsNaN(x) \/ x = RZero THEN d ELSE x

\* x > 0
FPositive(x) == ~IsNaN(x) /\ x[1] > 0

\* Object.entries(TOKENS).find(...)?.[1]?.decimals || 18: TOKENS lists USDC
\* with 6 decimals and three other tokens (here TKN, TK2, TK3) with 18.
FrontDecimals(t) ==
    IF \E k \in Tokens : toLowerCase(k) = toLowerCase(t)
    THEN ChainDecimals(CHOOSE k \in Tokens : toLowerCase(k) = toLowerCase(t))
    ELSE DEFAULT_DECIMALS

\* The two balanceOf reads of a pool, formatted.
FrontReserves(pool) ==
    [a |-> Formatted(bal[pool][1], FrontDecimals(PoolTokenA(pool))),
     b |-> Formatted(bal[pool][2], FrontDecimals(PoolTokenB(pool)))]

\* The first loop of getTokenPriceInUSD: a direct USDC pair.  failPools are
\* the pools whose balance reads throw (caught, the loop continues).
RECURSIVE FrontDirect(_, _, _)
FrontDirect(tokenAddress, list, failPools) ==
    IF list = <<>> THEN [found |-> FALSE, price |-> RZero, reads |-> {}]
    ELSE
      LET pool == Head(list)
          tokenA == toLowerCase(PoolTokenA(pool))
          tokenB == toLowerCase(PoolTokenB(pool))
          usdcAddress == toLowerCase(USDC_ADDRESS)
          tokenAddrLower == toLowerCase(tokenAddress)
          otherToken == IF tokenA = usdcAddress THEN tokenB ELSE tokenA
          r == FrontReserves(pool)
          rest == FrontDirect(tokenAddress, Tail(list), failPools)
      IN  IF (tokenA = usdcAddress \/ tokenB = usdcAddress) /\ otherToken = tokenAddrLower
          THEN IF pool \in failPools
               THEN [rest EXCEPT !.reads = @ \cup {pool}]
               ELSE [found |-> TRUE,
                     price |-> IF tokenA = usdcAddress
                               THEN OrElse(FDiv(r.a, r.b), RZero)
                               ELSE OrElse(FDiv(r.b, r.a), RZero),
                     reads |-> {pool}]
          ELSE rest

\* The ratio alone, without the intermediate token's price.
PriceViaRatioOnly(priceRelativeToIntermediate, intermediatePrice) ==
    priceRelativeToIntermediate

\* return priceRelativeToIntermediate * intermediatePrice
PriceVia(priceRelativeToIntermediate, intermediatePrice) ==
    FMul(priceRelativeToIntermediate, intermediatePrice)

\* getTokenPriceInUSD of the Pools page.  The function calls itself for the
\* intermediate token with nothing that records the tokens already being
\* resolved; depth is the number of nested calls still followed, and a
\* result with returns = FALSE is a call that never returns.
RECURSIVE FrontPrice(_, _, _, _)
RECURSIVE FrontIndirect(_, _, _, _, _)
FrontPrice(tokenAddress, allPools, failPools, depth) ==
    IF toLowerCase(tokenAddress) = toLowerCase(USDC_ADDRESS)
    THEN [returns |-> TRUE, price |-> ROne, reads |-> {}]
    ELSE LET d == FrontDirect(tokenAddress, allPools, failPools)
         IN  IF d.found
             THEN [returns |-> TRUE, price |-> d.price, reads |-> d.reads]
             ELSE LET i == FrontIndirect(tokenAddress, allPools, allPools, failPools, depth)
                  IN  [i EXCEPT !.reads = @ \cup d.reads]

\* The second loop: a pool of the token without USDC, priced through the
\* other token of that pool.
FrontIndirect(tokenAddress, list, allPools, failPools, depth) ==
    IF list = <<>> THEN [returns |-> TRUE, price |-> RZero, reads |-> {}]
    ELSE
      LET pool == Head(list)
          tokenA == toLowerCase(PoolTokenA(pool))
          tokenB == toLowerCase(PoolTokenB(pool))
          usdcAddress == toLowerCase(USDC_ADDRESS)
          tokenAddrLower == toLowerCase(tokenAddress)
          intermediateToken == IF tokenA = tokenAddrLower THEN tokenB ELSE tokenA
          r == FrontReserves(pool)
          inter == FrontPrice(intermediateToken, allPools, failPools, depth - 1)
          rest == FrontIndirect(tokenAddress, Tail(list), allPools, failPools, depth)
          priceRelativeToIntermediate ==
              IF tokenA = tokenAddrLower THEN FDiv(r.b, r.a) ELSE FDiv(r.a, r.b)
      IN  IF /\ (tokenA = tokenAddrLower \/ tokenB = tokenAddrLower)
             /\ tokenA # usdcAddress
             /\ tokenB # usdcAddress
          THEN IF depth = 0 THEN [returns |-> FALSE, price |-> RZero, reads |-> {}]
               ELSE IF ~inter.returns THEN inter
               ELSE IF FPositive(inter.price)
               THEN IF pool \in failPools
                    THEN [rest EXCEPT !.reads = @ \cup inter.reads \cup {pool}]
                    ELSE [returns |-> TRUE,
                          price |-> PriceVia(priceRelativeToIntermediate, inter.price),
                          reads |-> inter.reads \cup {pool}]
               ELSE [rest EXCEPT !.reads = @ \cup inter.reads]
          ELSE rest

\* A chain of nested calls longer than the number of tokens resolves one
\* token inside its own resolution, with the same arguments: it never ends.
MaxDepth == Cardinality(Tokens)

\* Number(event.amount_in) of a string of decimal digits.
RECURSIVE ParseNumber(_)
ParseNumber(digits) ==
    IF digits = <<>> THEN 0
    ELSE ParseNumber(SubSeq(digits, 1, Len(digits) - 1)) * 10 + digits[Len(digits)]

\* 30 * 24 * 60 * 60 * 1000 milliseconds, in seconds.
WINDOW_S == 30 * DAY_S
DAY_MS == DAY_S * 1000

\* eventDate.toISOString().split('T')[0]: the UTC calendar day, counted from
\* 1970-01-01.
DateKey(timestamp) == timestamp \div DAY_MS

\* order=timestamp.asc
RECURSIVE OrderByTimestamp(_)
OrderByTimestamp(tbl) ==
    IF tbl = <<>> THEN <<>>
    ELSE LET n == CHOOSE k \in 1 .. Len(tbl) :
                      \A j \in 1 .. Len(tbl) :
                          \/ tbl[k].timestamp < tbl[j].timestamp
                          \/ (tbl[k].timestamp = tbl[j].timestamp /\ k <= j)
             others == [j \in 1 .. Len(tbl) - 1 |-> IF j < n THEN tbl[j] ELSE tbl[j + 1]]
         IN  <<tbl[n]>> \o OrderByTimestamp(others)

\* GET swap_events?timestamp=gte.<now - 30 days>&order=timestamp.asc&limit=10000,
\* nowS being Date.now() in whole seconds.
QuerySwapEvents(tbl, nowS) ==
    LET inWindow == SelectSeq(tbl, LAMBDA r : r.timestamp \div 1000 >= nowS - WINDOW_S)
        ordered == OrderByTimestamp(inWindow)
    IN  IF Len(ordered) > QUERY_LIMIT THEN SubSeq(ordered, 1, QUERY_LIMIT) ELSE ordered

\* The amount of the incoming leg only.
VolumeUSDInOnly(event) ==
    IF toLowerCase(event.token_in) = toLowerCase(USDC_ADDRESS)
    THEN Rat(ParseNumber(event.amount_in), Pow10(USDC_DECIMALS))
    ELSE RZero

\* volumeUSD of one event.
VolumeUSD(event) ==
    IF toLowerCase(event.token_in) = toLowerCase(USDC_ADDRESS)
    THEN Rat(ParseNumber(event.amount_in), Pow10(USDC_DECIMALS))
    ELSE IF toLowerCase(event.token_out) = toLowerCase(USDC_ADDRESS)
    THEN Rat(ParseNumber(event.amount_out), Pow10(USDC_DECIMALS))
    ELSE RZero

\* volumeUSD * 0.003
FeesUSD(volumeUSD) == RMul(volumeUSD, Rat(3, 1000))

NoMetrics == [totalVolume |-> RZero, totalFees |-> RZero, dailyMap |-> <<>>]

\* The loop of fetchMetricsFast over the rows of the response; dailyMap is a
\* function from date keys to [volume, fees].
RECURSIVE MetricsLoop(_, _)
MetricsLoop(swapEvents, acc) ==
    IF swapEvents = <<>> THEN acc
    ELSE LET event == Head(swapEvents)
             volumeUSD == VolumeUSD(event)
             feesUSD == FeesUSD(volumeUSD)
             dateKey == DateKey(event.timestamp)
             existing == IF dateKey \in DOMAIN acc.dailyMap THEN acc.dailyMap[dateKey]
                         ELSE [volume |-> RZero, fees |-> RZero]
             entry == [volume |-> RAdd(existing.volume, volumeUSD),
                       fees |-> RAdd(existing.fees, feesUSD)]
         IN  MetricsLoop(Tail(swapEvents),
                 IF RGt(volumeUSD, RZero)
                 THEN [totalVolume |-> RAdd(acc.totalVolume, volumeUSD),
                       totalFees |-> RAdd(acc.totalFees, feesUSD),
                       dailyMap |-> [k \in DOMAIN acc.dailyMap \cup {dateKey} |->
                                        IF k = dateKey THEN entry ELSE acc.dailyMap[k]]]
                 ELSE acc)

\* The page's fetchMetricsFast at time nowS.  response is "ok", "notok" (the
\* store answers with an error status: the totals are set to 0) or "throw"
\* (the fetch fails: nothing is set).
FetchMetricsFast(nowS, response) ==
    /\ ui.by = ""
    /\ LET m == IF response = "ok"
                THEN MetricsLoop(QuerySwapEvents(swap_events, nowS), NoMetrics)
                ELSE NoMetrics
       IN  ui' = IF response = "throw"
                 THEN [ui EXCEPT !.by = "fetchFailed", !.now = nowS,
                                 !.snapshot = swap_events]
                 ELSE [ui EXCEPT !.by = IF response = "ok" THEN "fetchMetricsFast"
                                        ELSE "fetchRefused",
                                 !.now = nowS, !.snapshot = swap_events,
                                 !.totalVolume = <<m.totalVolume>>,
                                 !.totalFees = <<m.totalFees>>,
                                 !.dailyMap = m.dailyMap]
    /\ UNCHANGED <<chainVars, storeVars, procVars>>

\* calculateMetrics: the prices of the tokens of the list, then the sum over
\* the pools whose balance reads answer.
RECURSIVE SumTVL(_, _, _)
SumTVL(list, tokenPrices, failPools) ==
    IF list = <<>> THEN RZero
    ELSE LET pool == Head(list)
             r == FrontReserves(pool)
             priceA == OrElse(tokenPrices[toLowerCase(PoolTokenA(pool))].price, RZero)
             priceB == OrElse(tokenPrices[toLowerCase(PoolTokenB(pool))].price, RZero)
             poolTVL == FAdd(FMul(r.a, OrElse(priceA, ROne)), FMul(r.b, OrElse(priceB, ROne)))
             rest == SumTVL(Tail(list), tokenPrices, failPools)
         IN  IF pool \in failPools THEN rest ELSE FAdd(poolTVL, rest)

FrontTVL(list, failPools, depth) ==
    LET uniqueTokens == {toLowerCase(PoolTokenA(list[n])) : n \in 1 .. Len(list)}
                        \cup {toLowerCase(PoolTokenB(list[n])) : n \in 1 .. Len(list)}
        tokenPrices == [t \in uniqueTokens |-> FrontPrice(t, list, failPools, depth)]
    IN  IF list = <<>> THEN [returns |-> TRUE, tvl |-> RZero]
        ELSE IF \E t \in uniqueTokens : ~tokenPrices[t].returns
        THEN [returns |-> FALSE, tvl |-> RZero]
        ELSE [returns |-> TRUE, tvl |-> SumTVL(list, tokenPrices, failPools)]

\* The pool lists a page can hold: pools of the factory, in its order.
RECURSIVE ListsOver(_, _)
ListsOver(S, n) ==
    IF n = 0 THEN {<<>>}
    ELSE LET shorter == ListsOver(S, n - 1)
         IN  shorter \cup {Append(l, p) : l \in shorter, p \in S}

Distinct(l) == \A n, m \in 1 .. Len(l) : n # m => l[n] # l[m]
PoolLists == {l \in ListsOver(AllPools, MaxPools) : Distinct(l)}

\* Raw balances of a pool: both legs funded, in two ratios, or tokenA drained.
BalChoices == {<<2, 1>>, <<1, 3>>, <<0, 1>>}

\* A USDC/TKN pool holding 1000 USDC and 500 TKN.
ScenarioA == <<1000 * Pow10(USDC_DECIMALS), 500 * Pow10(TknDecimals)>>
DefaultBal == [p \in AllPools |-> <<2, 1>>]

\* A factory with any pools, any of these balances in them, the pool
\* contracts' counters in step with the balances or not, and the page
\* holding the factory's list.
InitOracle ==
    /\ swapArgs = PlainArgs
    /\ txOf = PlainTx
    /\ logPool = PlainPool
    /\ head = InitHead
    /\ minedAt = [l \in SwapLogs |-> 0]
    /\ createdAt = [p \in AllPools |-> 0]
    /\ clock = 0
    /\ factory \in PoolLists
    /\ bal \in {f \in [AllPools -> BalChoices] :
                  \A p \in AllPools \ SeqToSet(factory) : f[p] = <<2, 1>>}
               \cup (IF factory = <<P1>>
                     THEN {[DefaultBal EXCEPT ![P1] = ScenarioA]} ELSE {})
    /\ cached \in {bal, DefaultBal}
    /\ ui = [NoUi EXCEPT !.pools = factory]
    /\ InitProcess

\* The page resolves the price of a token (and never gets an answer when
\* returns is FALSE).
AskPage(tokenAddress, failPools) ==
    /\ ui.by = ""
    /\ failPools \subseteq SeqToSet(ui.pools)
    /\ LET r == FrontPrice(tokenAddress, ui.pools, failPools, MaxDepth)
       IN  ui' = [ui EXCEPT !.by = "page", !.token = <<tokenAddress>>,
                            !.failPools = failPools, !.returns = r.returns,
                            !.price = r.price, !.reads = r.reads, !.tvl = NullVal]
    /\ UNCHANGED <<chainVars, storeVars, procVars>>

\* The indexer's getTokenPriceInUSD on the same pool list.
AskIndexer(tokenAddress, failPools) ==
    /\ ui.by = ""
    /\ failPools \subseteq SeqToSet(ui.pools)
    /\ LET r == PriceLookup(cached, tokenAddress, ui.pools, failPools)
       IN  ui' = [ui EXCEPT !.by = "indexer", !.token = <<tokenAddress>>,
                            !.failPools = failPools, !.returns = TRUE,
                            !.price = r.price,
                            !.reads = {x.address : x \in r.reads}, !.tvl = NullVal]
    /\ UNCHANGED <<chainVars, storeVars, procVars>>

\* One iteration of the indexer's storePoolData loop on the same pool list.
AskPoolData(poolAddress, failPools) ==
    /\ ui.by = ""
    /\ poolAddress \in SeqToSet(ui.pools)
    /\ failPools \subseteq SeqToSet(ui.pools) \ {poolAddress}
    /\ LET d == PoolData(poolAddress, ui.pools, failPools, clock)
       IN  ui' = [ui EXCEPT !.by = "storePoolData", !.pool = <<poolAddress>>,
                            !.failPools = failPools,
                            !.hasLiquidity = d.hasLiquidity, !.row = <<d.row>>,
                            !.tvl = d.row.total_liquidity]
    /\ UNCHANGED <<chainVars, storeVars, procVars>>

\* The indexer's getTokenInfo on an address, the token contract answering
\* symbolRead and decimalsRead (<<v>>, or <<>> for a read that threw).
AskTokenInfo(tokenAddress, symbolRead, decimalsRead) ==
    /\ ui.by = ""
    /\ ui' = [ui EXCEPT !.by = "getTokenInfo", !.token = <<tokenAddress>>,
                         !.contract = <<symbolRead, decimalsRead>>,
                         !.row = <<getTokenInfo(tokenAddress, symbolRead, decimalsRead)>>,
                         !.reads = getTokenInfoReads(tokenAddress)]
    /\ UNCHANGED <<chainVars, storeVars, procVars>>

\* The page's calculateMetrics.
CalculateMetrics(failPools) ==
    /\ ui.by = ""
    /\ failPools \subseteq SeqToSet(ui.pools)
    /\ LET r == FrontTVL(ui.pools, failPools, MaxDepth)
       IN  ui' = [ui EXCEPT !.by = "metrics", !.token = NullVal,
                            !.failPools = failPools, !.returns = r.returns,
                            !.price = NullVal, !.reads = {}, !.tvl = r.tvl]
    /\ UNCHANGED <<chainVars, storeVars, procVars>>

(***************************************************************************)
(* The indexer's cycle: run() calls index(), catches what it throws, and   *)
(* sleeps.  pc: idle -> fetched -> store -> reconcile (-> insert) ->       *)
(* sleeping -> idle.                                                       *)
(***************************************************************************)
LowerSet(list) == {toLowerCase(list[n]) : n \in 1 .. Len(list)}

\* index(), line 458: const pools = await fetchAllPools()
FetchPoolsUnawaited(i, countOk, failIdx) ==
    /\ pc[i] \notin {"boot", "exited"}
    /\ failIdx \subseteq 1 .. Len(factory)
    /\ countOk \/ failIdx = {}
    /\ LET list == fetchAllPools(countOk, failIdx)
       IN  /\ cyc' = [cyc EXCEPT ![i] = [NoCycle EXCEPT !.pools = list]]
           /\ knownPools' = [knownPools EXCEPT ![i] = @ \cup LowerSet(list)]
           /\ obs' = [obs EXCEPT ![i] =
                        [NoObs EXCEPT !.rpcFailed = ~countOk \/ failIdx # {}]]
    /\ pc' = [pc EXCEPT ![i] = "fetched"]
    /\ UNCHANGED <<ui, chainVars, storeVars, lastProcessedBlock>>

\* run() calls index() from the head of its loop, having awaited the call
\* before and the timer after it; index() begins with fetchAllPools().
FetchPools(i, countOk, failIdx) ==
    /\ pc[i] = "idle"
    /\ failIdx \subseteq 1 .. Len(factory)
    /\ countOk \/ failIdx = {}
    /\ LET list == fetchAllPools(countOk, failIdx)
       IN  /\ cyc' = [cyc EXCEPT ![i] = [NoCycle EXCEPT !.pools = list]]
           /\ knownPools' = [knownPools EXCEPT ![i] = @ \cup LowerSet(list)]
           /\ obs' = [obs EXCEPT ![i] =
                        [NoObs EXCEPT !.rpcFailed = ~countOk \/ failIdx # {}]]
    /\ pc' = [pc EXCEPT ![i] = "fetched"]
    /\ UNCHANGED <<ui, chainVars, storeVars, lastProcessedBlock>>

\* The PoolCreated logs of the factory inside [fromBlock, toBlock], in chain order.
RECURSIVE CreatedOrder(_)
CreatedOrder(S) ==
    IF S = {} THEN <<>>
    ELSE LET first == CHOOSE p \in S : \A q \in S : createdAt[p] <= createdAt[q]
         IN  <<first>> \o CreatedOrder(S \ {first})

PoolCreatedLogs(fromBlock, toBlock) ==
    CreatedOrder({p \in AllPools : /\ createdAt[p] # 0
                                    /\ fromBlock <= createdAt[p]
                                    /\ createdAt[p] <= toBlock})

\* The loop "Add newly created pools" of index(): the pools to push.
RECURSIVE NewPools(_, _)
NewPools(logs, known) ==
    IF logs = <<>> THEN <<>>
    ELSE IF toLowerCase(Head(logs)) \in known
         THEN NewPools(Tail(logs), known)
         ELSE <<Head(logs)>> \o NewPools(Tail(logs), known \cup {toLowerCase(Head(logs))})

\* index(), lines 462-521: getBlockNumber, the cursor's initialisation, the
\* extraction of the range's Swap logs, the PoolCreated scan and the
\* assignment lastProcessedBlock = toBlock.  blockOk and createdOk are
\* whether getBlockNumber and the PoolCreated getLogs answered (a throw
\* leaves index() and is caught by run()); failPools are the pools whose
\* processSwapEvents caught an error.
IndexRange(i, blockOk, failPools, createdOk) ==
    /\ pc[i] = "fetched"
    /\ LET c == cyc[i]
           currentBlock == head
           start == IF Falsy(lastProcessedBlock[i])
                    THEN <<currentBlock - LOOK_BACK>>
                    ELSE lastProcessedBlock[i]
           fromBlock == start[1] + 1
           toBlock == currentBlock
           inRange == fromBlock <= toBlock
           events == IF inRange
                     THEN ExtractAll(c.pools, fromBlock, toBlock, failPools)
                     ELSE <<>>
           added == NewPools(PoolCreatedLogs(fromBlock, toBlock), knownPools[i])
       IN  /\ failPools \subseteq SeqToSet(c.pools)
           /\ (blockOk /\ inRange) \/ (failPools = {} /\ createdOk)
           /\ IF ~blockOk
              THEN /\ pc' = [pc EXCEPT ![i] = "sleeping"]
                   /\ obs' = [obs EXCEPT ![i].rpcFailed = TRUE, ![i].threw = TRUE]
                   /\ UNCHANGED <<lastProcessedBlock, knownPools, cyc>>
              ELSE IF inRange /\ ~createdOk
              THEN /\ pc' = [pc EXCEPT ![i] = "sleeping"]
                   /\ obs' = [obs EXCEPT ![i].rpcFailed = TRUE, ![i].threw = TRUE]
                   /\ lastProcessedBlock' = [lastProcessedBlock EXCEPT ![i] = start]
                   /\ cyc' = [cyc EXCEPT ![i].currentBlock = currentBlock,
                                         ![i].fromBlock = fromBlock,
                                         ![i].toBlock = toBlock,
                                         ![i].allSwapEvents = events]
                   /\ UNCHANGED knownPools
              ELSE /\ pc' = [pc EXCEPT ![i] = "store"]
                   /\ obs' = [obs EXCEPT ![i].rpcFailed = @ \/ failPools # {},
                                         ![i].advanced = inRange,
                                         ![i].scanned = IF inRange
                                                        THEN SeqToSet(c.pools) \ failPools
                                                        ELSE {}]
                   /\ lastProcessedBlock' =
                        [lastProcessedBlock EXCEPT ![i] = IF inRange THEN <<toBlock>> ELSE start]
                   /\ knownPools' =
                        [knownPools EXCEPT ![i] = IF inRange THEN @ \cup LowerSet(added) ELSE @]
                   /\ cyc' = [cyc EXCEPT ![i].currentBlock = currentBlock,
                                         ![i].fromBlock = fromBlock,
                                         ![i].toBlock = toBlock,
                                         ![i].allSwapEvents = events,
                                         ![i].pools = IF inRange THEN @ \o added ELSE @]
    /\ UNCHANGED <<ui, chainVars, storeVars>>

\* index(), lines 524-532: storeSwapEvents when there are events, then the
\* entry of storePoolData, which returns at once for an empty list.
\* failIdx are the events whose upsert did not reach the table.
StoreEvents(i, failIdx) ==
    /\ pc[i] = "store"
    /\ failIdx \subseteq 1 .. Len(cyc[i].allSwapEvents)
    /\ swap_events' = storeSwapEvents(swap_events, cyc[i].allSwapEvents, 1, failIdx)
    /\ obs' = [obs EXCEPT ![i].storeFailed = @ \/ failIdx # {}]
    /\ IF cyc[i].pools = <<>>
       THEN /\ pc' = [pc EXCEPT ![i] = "sleeping"]
            /\ UNCHANGED cyc
       ELSE /\ pc' = [pc EXCEPT ![i] = "reconcile"]
            /\ cyc' = [cyc EXCEPT ![i].k = 1]
    /\ UNCHANGED <<ui, chainVars, pools, price_history, lastProcessedBlock, knownPools>>

AfterPool(c) == IF c.k + 1 > Len(c.pools) THEN "sleeping" ELSE "reconcile"

Written(tbl, row) ==
    [tbl |-> tbl, pool_address |-> row.pool_address,
     reserve_a |-> row.reserve_a, reserve_b |-> row.reserve_b]

\* The same iteration with storePriceHistory called after the upsert
\* whether or not the upsert came back with an error.
ReconcilePoolSnapshotAnyway(i, rpcOk, failPools, writeOk, sel) ==
    /\ pc[i] = "reconcile"
    /\ LET c == cyc[i]
           poolAddress == c.pools[c.k]
           d == PoolData(poolAddress, c.pools, failPools, clock)
           last == IF sel = "data"
                   THEN LastSnapshot(price_history, toLowerCase(poolAddress))
                   ELSE <<>>
           snap == rpcOk /\ d.hasLiquidity /\ sel # "throw"
                   /\ ShouldSnapshot(last, clock)
       IN  /\ failPools \subseteq SeqToSet(c.pools)
           /\ pools' = IF rpcOk /\ writeOk
                       THEN IF d.hasLiquidity
                            THEN UpsertPool(pools, d.row)
                            ELSE DeletePool(pools, toLowerCase(poolAddress))
                       ELSE pools
           /\ obs' = [obs EXCEPT
                 ![i].rpcFailed = @ \/ ~rpcOk \/ failPools # {},
                 ![i].storeFailed = @ \/ (rpcOk /\ (~writeOk \/ (d.hasLiquidity /\ sel # "data"))),
                 ![i].reconciled = IF rpcOk /\ writeOk THEN @ \cup {poolAddress} ELSE @,
                 ![i].done = IF rpcOk /\ writeOk THEN <<poolAddress>> ELSE <<>>,
                 ![i].reads = IF rpcOk THEN d.reads ELSE {},
                 ![i].wrote = IF rpcOk /\ writeOk /\ d.hasLiquidity
                              THEN {Written("pools", d.row)} ELSE {}]
           /\ IF snap
              THEN /\ pc' = [pc EXCEPT ![i] = "insert"]
                   /\ cyc' = [cyc EXCEPT ![i].snap = d.snapshot]
              ELSE /\ pc' = [pc EXCEPT ![i] = AfterPool(c)]
                   /\ cyc' = [cyc EXCEPT ![i].k = @ + 1]
    /\ UNCHANGED <<ui, chainVars, swap_events, price_history, lastProcessedBlock, knownPools>>

\* One iteration of storePoolData's loop, up to and including the select of
\* storePriceHistory.  rpcOk: the reads of the iteration answered (a throw is
\* caught per pool); failPools: the pools skipped inside getTokenPriceInUSD;
\* writeOk: the upsert or delete came back without error; sel: the select
\* gave data ("data"), gave no data because it failed ("error"), or threw.
ReconcilePool(i, rpcOk, failPools, writeOk, sel) ==
    /\ pc[i] = "reconcile"
    /\ LET c == cyc[i]
           poolAddress == c.pools[c.k]
           d == PoolData(poolAddress, c.pools, failPools, clock)
           last == IF sel = "data"
                   THEN LastSnapshot(price_history, toLowerCase(poolAddress))
                   ELSE <<>>
           snap == rpcOk /\ d.hasLiquidity /\ writeOk /\ sel # "throw"
                   /\ ShouldSnapshot(last, clock)
       IN  /\ failPools \subseteq SeqToSet(c.pools)
           /\ pools' = IF rpcOk /\ writeOk
                       THEN IF d.hasLiquidity
                            THEN UpsertPool(pools, d.row)
                            ELSE DeletePool(pools, toLowerCase(poolAddress))
                       ELSE pools
           /\ obs' = [obs EXCEPT
                 ![i].rpcFailed = @ \/ ~rpcOk \/ failPools # {},
                 ![i].storeFailed = @ \/ (rpcOk /\ (~writeOk \/ (d.hasLiquidity /\ sel # "data"))),
                 ![i].reconciled = IF rpcOk /\ writeOk THEN @ \cup {poolAddress} ELSE @,
                 ![i].done = IF rpcOk /\ writeOk THEN <<poolAddress>> ELSE <<>>,
                 ![i].reads = IF rpcOk THEN d.reads ELSE {},
                 ![i].wrote = IF rpcOk /\ writeOk /\ d.hasLiquidity
                              THEN {Written("pools", d.row)} ELSE {}]
           /\ IF snap
              THEN /\ pc' = [pc EXCEPT ![i] = "insert"]
                   /\ cyc' = [cyc EXCEPT ![i].snap = d.snapshot]
              ELSE /\ pc' = [pc EXCEPT ![i] = AfterPool(c)]
                   /\ cyc' = [cyc EXCEPT ![i].k = @ + 1]
    /\ UNCHANGED <<ui, chainVars, swap_events, price_history, lastProcessedBlock, knownPools>>

\* storePriceHistory's insert; ok: it reached the store.
InsertSnapshot(i, ok) ==
    /\ pc[i] = "insert"
    /\ LET c == cyc[i]
       IN  /\ price_history' = IF ok THEN InsertSnapshotRow(price_history, c.snap)
                               ELSE price_history
           /\ obs' = [obs EXCEPT
                 ![i].storeFailed = @ \/ ~ok,
                 ![i].wrote = IF ok /\ InsertSnapshotRow(price_history, c.snap) # price_history
                              THEN @ \cup {Written("price_history", c.snap)} ELSE @]
           /\ pc' = [pc EXCEPT ![i] = AfterPool(c)]
           /\ cyc' = [cyc EXCEPT ![i].k = @ + 1, ![i].snap = NullVal]
    /\ UNCHANGED <<ui, chainVars, swap_events, pools, lastProcessedBlock, knownPools>>

\* Start-up: the process leaves at once with exit code 1 when a store
\* credential is unset, and calls run() otherwise.  (WSS_URL falls back to
\* a literal default and is never unset.)
StartupUnchecked(i) ==
    /\ pc[i] = "boot"
    /\ pc' = [pc EXCEPT ![i] = "idle"]
    /\ UNCHANGED <<ui, chainVars, storeVars, lastProcessedBlock, knownPools, cyc, obs>>

Startup(i) ==
    /\ pc[i] = "boot"
    /\ pc' = [pc EXCEPT ![i] =
                IF SUPABASE_URL(i) = "" \/ SUPABASE_KEY(i) = "" THEN "exited" ELSE "idle"]
    /\ UNCHANGED <<ui, chainVars, storeVars, lastProcessedBlock, knownPools, cyc, obs>>

\* run(): whatever index() threw has been caught and logged; the loop
\* waits ten seconds and goes round again.
SleepAfterSuccess(i) ==
    /\ pc[i] = "sleeping"
    /\ ~obs[i].threw
    /\ pc' = [pc EXCEPT ![i] = "idle"]
    /\ UNCHANGED <<ui, chainVars, storeVars, lastProcessedBlock, knownPools, cyc, obs>>

Sleep(i) ==
    /\ pc[i] = "sleeping"
    /\ pc' = [pc EXCEPT ![i] = "idle"]
    /\ UNCHANGED <<ui, chainVars, storeVars, lastProcessedBlock, knownPools, cyc, obs>>

\* The provider takes a call and never answers it.  Both clients are
\* created without a timeout and no call is raced against a timer: the
\* await of the call is never resumed, and with it index() and run().
Stall(i) ==
    /\ pc[i] \in {"idle", "fetched", "reconcile"}
    /\ pc' = [pc EXCEPT ![i] = "stalled"]
    /\ UNCHANGED <<ui, chainVars, storeVars, lastProcessedBlock, knownPools, cyc, obs>>

\* The process is stopped and started again: knownPools and
\* lastProcessedBlock live in memory only.
Restart(i) ==
    /\ pc[i] \notin {"boot", "exited"}
    /\ pc[i] # "idle" \/ lastProcessedBlock[i] # NullVal
    /\ pc' = [pc EXCEPT ![i] = "idle"]
    /\ lastProcessedBlock' = [lastProcessedBlock EXCEPT ![i] = NullVal]
    /\ knownPools' = [knownPools EXCEPT ![i] = {}]
    /\ cyc' = [cyc EXCEPT ![i] = NoCycle]
    /\ obs' = [obs EXCEPT ![i] = NoObs]
    /\ UNCHANGED <<ui, chainVars, storeVars>>

(***************************************************************************)
(* Specifications.  The indexer's actions take the outcome of every chain  *)
(* read and store call as a parameter; a specification says which outcomes *)
(* and which moves of the chain it lets happen.                            *)
(***************************************************************************)
Outcomes(failures) == IF failures THEN BOOLEAN ELSE {TRUE}
FailSets(S, failures) == IF failures THEN SUBSET S ELSE {{}}
Selects(failures) == IF failures THEN {"data", "error", "throw"} ELSE {"data"}

Blocks ==
    \/ NewBlock
    \/ \E l \in SwapLogs : MineSwap(l)
    \/ \E p \in PoolAddrs : CreatePool(p)

\* The USDC leg moves around the dust threshold (a raw 1 is exactly 0.000001);
\* the other leg of the first pool is empty or above it.
Liquidity ==
    \/ \E a \in 1 .. MaxBal, b \in 0 .. 1 : Transfer(P1, a, b)
    \/ \E b \in 1 .. 2 : Transfer(P2, 1, b)
    \/ \E a \in 1 .. 2 : Update(P1, a, 1)
    \/ \E p \in PoolAddrs : CreatePool(p)

Discover(i, failures) ==
    \/ \E countOk \in Outcomes(failures), failIdx \in FailSets(1 .. Len(factory), failures) :
          FetchPools(i, countOk, failIdx)
    \/ \E blockOk, createdOk \in Outcomes(failures), failPools \in FailSets(PoolAddrs, failures) :
          IndexRange(i, blockOk, failPools, createdOk)
    \/ \E failIdx \in FailSets(1 .. Len(cyc[i].allSwapEvents), failures) :
          StoreEvents(i, failIdx)

Reconcile(i, failures, selects) ==
    \/ \E rpcOk, writeOk \in Outcomes(failures), sel \in Selects(selects) :
          ReconcilePool(i, rpcOk, {}, writeOk, sel)
    \/ \E ok \in Outcomes(failures) : InsertSnapshot(i, ok)
    \/ Sleep(i)

\* One instance, blocks and pools arriving, every failure the code handles.
Next == Blocks \/ Discover(1, TRUE) \/ Reconcile(1, TRUE, TRUE)
Spec == Init /\ [][Next]_vars

\* One instance, balances and reserve counters moving, a second pool arriving;
\* RPC reads and store writes may fail.
NextReconcile == Liquidity \/ Discover(1, FALSE) \/ Reconcile(1, TRUE, FALSE)
SpecReconcile == Init /\ [][NextReconcile]_vars

\* One instance, time passing, the store failing.
NextThrottle == Tick \/ Discover(1, FALSE) \/ Reconcile(1, TRUE, TRUE)
SpecThrottle == Init /\ [][NextThrottle]_vars

\* Two instances on one store, each restarting at will; no failures.
NextShared ==
    \/ Blocks
    \/ \E i \in Instances : Discover(i, FALSE) \/ Reconcile(i, FALSE, FALSE) \/ Restart(i)
SpecShared == Init /\ [][NextShared]_vars

\* Two instances on one store, time passing; no failures.
NextRace ==
    \/ Tick
    \/ \E i \in Instances : Discover(i, FALSE) \/ Reconcile(i, FALSE, FALSE)
SpecRace == Init /\ [][NextRace]_vars

\* One price lookup or TVL computation on any pool list; the reads of at most
\* one pool fail.
OneOrNone(S) == {{}} \cup {{p} : p \in S}
NextOracle ==
    \/ \E t \in Tokens, failPools \in OneOrNone(AllPools) : AskPage(t, failPools)
    \/ \E t \in Tokens, failPools \in OneOrNone(AllPools) : AskIndexer(t, failPools)
    \/ \E failPools \in OneOrNone(AllPools) : CalculateMetrics(failPools)
    \/ \E p \in AllPools, failPools \in OneOrNone(AllPools) : AskPoolData(p, failPools)
SpecOracle == InitOracle /\ [][NextOracle]_vars

\* Swaps in a USDC/TKN pool and in a TKN/USDC or TKN/TK2 pool, of every
\* shape, mined in one block or in two on either side of midnight; the
\* indexer stores them and the page computes its metrics, shortly after the
\* last block or thirty days after the first block of the second day.
InitMetrics ==
    /\ swapArgs \in [SwapLogs -> ArgChoices]
    /\ txOf = PlainTx
    /\ logPool \in {[PlainPool EXCEPT !["s2"] = p] : p \in {P2, P3}}
    /\ head = InitHead
    /\ minedAt = [l \in SwapLogs |-> 0]
    /\ factory = <<P1, logPool["s2"]>>
    /\ createdAt = [p \in AllPools |-> 0]
    /\ bal = DefaultBal
    /\ cached = DefaultBal
    /\ clock = 0
    /\ ui = NoUi
    /\ InitProcess

\* Two transactions land in the same block.
MineTogether ==
    /\ head < MaxHead
    /\ \A m \in SwapLogs : minedAt[m] = 0 /\ LogPool(m) \in SeqToSet(factory)
    /\ head' = head + 1
    /\ minedAt' = [m \in SwapLogs |-> head + 1]
    /\ UNCHANGED <<factory, createdAt, bal, cached, clock>>
    /\ UNCHANGED <<logVars, storeVars, procVars, ui>>

NowChoices == {BlockTimestampS(MaxHead) + 60, BlockTimestampS(InitHead + 2) + WINDOW_S}

NextMetrics ==
    \/ NewBlock
    \/ \E l \in SwapLogs : MineSwap(l)
    \/ MineTogether
    \/ Discover(1, FALSE)
    \/ Reconcile(1, FALSE, FALSE)
    \/ \E nowS \in NowChoices, response \in {"ok", "notok", "throw"} :
           FetchMetricsFast(nowS, response)
SpecMetrics == InitMetrics /\ [][NextMetrics]_vars

\* One instance, no failures, Swap logs of every shape.
\* The same, with the event loop at work: a continuation whose awaited call
\* has settled, and a timer that has expired, are run in the end.
Step(i) == Discover(i, TRUE) \/ Reconcile(i, TRUE, TRUE)
SpecLive == Init /\ [][Next]_vars /\ WF_vars(Step(1))

\* The same again, with a provider that may leave a call unanswered.
NextStall == Next \/ Stall(1)
SpecStall == Init /\ [][NextStall]_vars /\ WF_vars(Step(1))

\* Token metadata: any address, known to the static table or not, and any
\* answers of its contract (no answer, an empty symbol, zero decimals).
SymbolReads == {<<>>, <<"">>, <<"TKN">>}
DecimalsReads == {<<>>, <<0>>, <<TknDecimals>>, <<USDC_DECIMALS>>, <<8>>, <<DEFAULT_DECIMALS>>}
NextTokens ==
    \E tokenAddress \in Tokens \cup {RAC, RAC_CHECKSUM},
       symbolRead \in SymbolReads, decimalsRead \in DecimalsReads :
        AskTokenInfo(tokenAddress, symbolRead, decimalsRead)
SpecTokens == Init /\ [][NextTokens]_vars

\* The cursor: blocks arriving, the reported head going backwards, every
\* failure of the discovery, a store that answers.
NextCursor == NewBlock \/ HeadBack \/ Discover(1, TRUE) \/ Reconcile(1, FALSE, FALSE)
SpecCursor == Init /\ [][NextCursor]_vars

\* One process launched with any credentials, blocks and pools arriving.
NextBoot == Blocks \/ Startup(1) \/ Discover(1, TRUE) \/ Reconcile(1, FALSE, FALSE)
SpecBoot == InitBoot /\ [][NextBoot]_vars

NextSwaps == Blocks \/ Discover(1, FALSE) \/ Reconcile(1, FALSE, FALSE)
SpecSwaps == InitSwaps /\ [][NextSwaps]_vars

(***************************************************************************)
(* Properties.                                                             *)
(***************************************************************************)
TxCount(tx) == Cardinality({n \in 1 .. Len(swap_events) : swap_events[n].tx_hash = tx})
PoolRowCount(address) == Cardinality({n \in 1 .. Len(pools) : pools[n].pool_address = address})
PastStore(i) == pc[i] \in {"reconcile", "insert", "sleeping"} /\ ~obs[i].threw
EventsOf(i) == SeqToSet(cyc[i].allSwapEvents)

\* The balanceOf answers the current iteration of instance i got for pool p.
BalanceReadA(i, p) ==
    {r \in obs[i].reads : r.fn = "balanceOf" /\ r.address = PoolTokenA(p) /\ r.arg = p}
BalanceReadB(i, p) ==
    {r \in obs[i].reads : r.fn = "balanceOf" /\ r.address = PoolTokenB(p) /\ r.arg = p}

\* raw / 10^decimals > 0.000001, in integers.
AboveDust(raw, decimals) == raw * Pow10(DUST_EXP) > Pow10(decimals)

Apart(t, u) == IF t >= u THEN t - u ELSE u - t

\* C1: swap_events never holds two rows with one transaction hash, and once
\* an instance has stored the events of its range each of them has exactly
\* one row, also when another instance or an earlier run stored it before.
C1_OneRowPerTxHash ==
    /\ \A n, m \in 1 .. Len(swap_events) :
          n # m => swap_events[n].tx_hash # swap_events[m].tx_hash
    /\ \A i \in Instances :
          PastStore(i) => \A e \in EventsOf(i) : TxCount(e.txHash) = 1

\* Both instances have stored the same transaction from overlapping ranges.
C1_OverlapStored ==
    /\ PastStore(1) /\ PastStore(2)
    /\ \E e \in EventsOf(1) : e \in EventsOf(2) /\ TxCount(e.txHash) = 1

\* C2: every reserve_a / reserve_b that reaches pools or price_history is
\* the decimal string of what balanceOf(pool) answered on tokenA / tokenB in
\* the same iteration, and the table holds that very row.
C2_ReservesAreBalanceReads ==
    \A i \in Instances : \A w \in obs[i].wrote :
       /\ \E p \in PoolAddrs :
            /\ toLowerCase(p) = w.pool_address
            /\ \E ra \in BalanceReadA(i, p) : toString(ra.value) = w.reserve_a
            /\ \E rb \in BalanceReadB(i, p) : toString(rb.value) = w.reserve_b
       /\ LET tbl == IF w.tbl = "pools" THEN pools ELSE price_history
          IN  \E n \in 1 .. Len(tbl) : Written(w.tbl, tbl[n]) = w

\* A pool row and a snapshot were written while the pool contract's
\* counters differ from the balances.
C2_WroteWhileCountersDrift ==
    /\ cached[P1] # bal[P1]
    /\ \E w1, w2 \in obs[1].wrote : w1.tbl = "pools" /\ w2.tbl = "price_history"

\* C3: what the indexer writes for a pool does not depend on the pool
\* contracts' reserve counters: it reads none of them, and with any other
\* counters the row and the snapshot of the iteration at hand are the same.
C3_RowsIgnoreReserveCounters ==
    \A i \in Instances :
       /\ \A r \in obs[i].reads : r.fn \notin {"reserveA", "reserveB"}
       /\ pc[i] = "reconcile" =>
            \A other \in [PoolAddrs -> (1 .. MaxBal) \X (1 .. MaxBal)] :
               LET c == cyc[i]
                   mine == PoolDataOn(cached, c.pools[c.k], c.pools, {}, clock)
                   their == PoolDataOn(other, c.pools[c.k], c.pools, {}, clock)
               IN  mine.row = their.row /\ mine.snapshot = their.snapshot

\* C4: once a cycle has set the cursor to the head of its range, the swap
\* events of that range are in the store and every pool of the cycle has
\* been reconciled and persisted.
C4_CursorAdvancedLast ==
    \A i \in Instances :
       obs[i].advanced =>
          /\ \A e \in EventsOf(i) : TxCount(e.txHash) >= 1
          /\ SeqToSet(cyc[i].pools) \subseteq obs[i].reconciled

\* C5: a cycle in which a chain read failed has not advanced the cursor.
C5_RpcFailureKeepsCursor ==
    \A i \in Instances : obs[i].rpcFailed => ~obs[i].advanced

\* C6: a cycle that left one of its swap events out of the store has not
\* advanced the cursor.
C6_LostEventKeepsCursor ==
    \A i \in Instances :
       (PastStore(i) /\ \E e \in EventsOf(i) : TxCount(e.txHash) = 0)
          => ~obs[i].advanced

\* C7: a cycle that ran to its end, and in which no iteration of the
\* reconciliation loop failed, has read the balances of every pool of the
\* known-pool set and persisted its row, whatever the block range was.
C7_EveryKnownPoolReconciled ==
    \A i \in Instances :
       (/\ pc[i] = "sleeping"
        /\ ~obs[i].threw
        /\ SeqToSet(cyc[i].pools) \subseteq obs[i].reconciled)
          => knownPools[i] \subseteq {toLowerCase(p) : p \in obs[i].reconciled}

\* C8: with one instance, two snapshots of one pool are at least 60 s apart.
C8_SnapshotsThrottled ==
    \A n, m \in 1 .. Len(price_history) :
       (n # m /\ price_history[n].pool_address = price_history[m].pool_address)
          => Apart(price_history[n].timestamp, price_history[m].timestamp) >= THROTTLE_MS

\* C9: with two instances on one store there is at most one pools row per
\* pool address, at most one swap_events row per transaction hash, and the
\* snapshots of a pool are at least 60 s apart.
C9_SharedStoreConsistent ==
    /\ \A p \in PoolAddrs : PoolRowCount(toLowerCase(p)) <= 1
    /\ \A l \in SwapLogs : TxCount(LogTx(l)) <= 1
    /\ \A n \in 1 .. Len(price_history) : \A m \in 1 .. (n - 1) :
          price_history[n].pool_address = price_history[m].pool_address
             => Apart(price_history[n].timestamp, price_history[m].timestamp) >= THROTTLE_MS

\* C10: after an iteration that reconciled a pool without error, pools has
\* a row for it exactly if both balances read, divided by 10^decimals, are
\* above 0.000001.
C10_RowIffAboveDust ==
    \A i \in Instances :
       obs[i].done # <<>> =>
          LET p == obs[i].done[1]
          IN  PoolRowCount(toLowerCase(p)) = 1
                <=> /\ \A r \in BalanceReadA(i, p) :
                          AboveDust(r.value, TokenInfo(PoolTokenA(p)).decimals)
                    /\ \A r \in BalanceReadB(i, p) :
                          AboveDust(r.value, TokenInfo(PoolTokenB(p)).decimals)

\* The pool's USDC balance is exactly at the threshold and its row is gone.
C10_AtThresholdDeleted ==
    /\ obs[1].done = <<P1>>
    /\ \E r \in BalanceReadA(1, P1) : r.value * Pow10(DUST_EXP) = Pow10(USDC_DECIMALS)
    /\ \E r \in BalanceReadB(1, P1) : AboveDust(r.value, TknDecimals)
    /\ PoolRowCount(toLowerCase(P1)) = 0

\* The Swap logs whose pool instance i scanned in the range of its cycle.
Observed(i) ==
    {l \in SwapLogs : /\ LogPool(l) \in obs[i].scanned
                      /\ minedAt[l] # 0
                      /\ cyc[i].fromBlock <= minedAt[l]
                      /\ minedAt[l] <= cyc[i].toBlock}

\* The records of the cycle that come from log l.
RecordsOf(i, l) == {e \in EventsOf(i) : e.txHash = LogTx(l) /\ e.poolAddress = LogPool(l)}

\* C11: once a cycle has stored its events, every Swap log it observed that
\* yields a record has that record's row in swap_events, also when
\* another log of the same transaction was stored after it.
C11_EveryLogHasItsRow ==
    \A i \in Instances :
       PastStore(i) =>
          \A l \in Observed(i) : \A e \in RecordsOf(i, l) :
             \E n \in 1 .. Len(swap_events) : swap_events[n] = SwapRow(e)

\* C12: the record of an observed Swap log takes its direction from the
\* nonzero in-amount, tokenA's first, and a log with both in-amounts zero
\* has no record.
C12_DirectionFollowsInAmount ==
    \A i \in Instances : \A l \in Observed(i) :
       LET a == LogArgs(l)
           tokenA == PoolTokenA(LogPool(l))
           tokenB == PoolTokenB(LogPool(l))
           got == {[tokenIn |-> e.tokenIn, tokenOut |-> e.tokenOut,
                    amountIn |-> e.amountIn, amountOut |-> e.amountOut] : e \in RecordsOf(i, l)}
       IN  /\ a.amountAIn # 0 =>
                got = {[tokenIn |-> tokenA, tokenOut |-> tokenB,
                        amountIn |-> a.amountAIn, amountOut |-> a.amountBOut]}
           /\ (a.amountAIn = 0 /\ a.amountBIn # 0) =>
                got = {[tokenIn |-> tokenB, tokenOut |-> tokenA,
                        amountIn |-> a.amountBIn, amountOut |-> a.amountAOut]}
           /\ (a.amountAIn = 0 /\ a.amountBIn = 0) => got = {}

\* One cycle observed a log with both in-amounts nonzero and a log with
\* both in-amounts zero.
C12_BothInAndNoneIn ==
    \E l, m \in Observed(1) :
       /\ LogArgs(l).amountAIn # 0 /\ LogArgs(l).amountBIn # 0
       /\ LogArgs(m).amountAIn = 0 /\ LogArgs(m).amountBIn = 0
       /\ RecordsOf(1, l) # {}

\* C13: price resolution terminates for every token and every pool list,
\* pool graphs with cycles that have no USDC leg included: every lookup of
\* the page and of the indexer returns.
C13_PriceResolutionTerminates ==
    ui.by \in {"page", "indexer"} => ui.returns

\* C14: the price of USDC is exactly 1 for every pool list and every reserve
\* state, the empty list and failing reads included, and no pool is read for
\* it, in the page's lookup and in the indexer's.
C14_StableAssetIsOne ==
    (/\ ui.by \in {"page", "indexer"}
     /\ toLowerCase(ui.token[1]) = toLowerCase(USDC_ADDRESS))
    => (ui.returns /\ ui.price = ROne /\ ui.reads = {})

\* USDC priced by the indexer on a list whose USDC pool has its USDC leg
\* drained, while the reads of a pool fail.
C14_AskedWithDrainedPoolAndFailingRead ==
    /\ ui.by = "indexer"
    /\ ui.token = <<USDC_ADDRESS>>
    /\ ui.failPools # {}
    /\ \E n \in 1 .. Len(ui.pools) :
         /\ PoolTokenA(ui.pools[n]) = USDC_ADDRESS
         /\ bal[ui.pools[n]][1] = 0
         /\ cached[ui.pools[n]][1] = 0

\* The pools of a list that pair a token with USDC, in the list's order.
DirectPools(t, list) ==
    SelectSeq(list, LAMBDA p :
        {toLowerCase(PoolTokenA(p)), toLowerCase(PoolTokenB(p))}
            = {toLowerCase(t), toLowerCase(USDC_ADDRESS)})

\* The balance a pool holds of one of its two tokens, normalized by the
\* token's decimals.
NormalizedBalance(p, t) ==
    IF toLowerCase(PoolTokenA(p)) = toLowerCase(t)
    THEN Formatted(bal[p][1], ChainDecimals(PoolTokenA(p)))
    ELSE Formatted(bal[p][2], ChainDecimals(PoolTokenB(p)))

\* A lookup of a token other than USDC whose first direct pool in the list
\* answers its reads and holds some of the token.
DirectCase ==
    /\ ui.by \in {"page", "indexer"}
    /\ toLowerCase(ui.token[1]) # toLowerCase(USDC_ADDRESS)
    /\ DirectPools(ui.token[1], ui.pools) # <<>>
    /\ LET p == Head(DirectPools(ui.token[1], ui.pools))
       IN  /\ p \notin ui.failPools
           /\ RGt(NormalizedBalance(p, ui.token[1]), RZero)

\* C15: for a token that shares a pool with USDC, whichever slot USDC is in,
\* the resolved price is the pool's normalized USDC reserve divided by its
\* normalized reserve of the token.
C15_DirectPoolPrice ==
    DirectCase =>
        LET p == Head(DirectPools(ui.token[1], ui.pools))
        IN  /\ ui.returns
            /\ ui.price = RDiv(NormalizedBalance(p, USDC_ADDRESS),
                               NormalizedBalance(p, ui.token[1]))

\* The same for the page's lookups, and for the indexer's when the pool
\* contracts' counters equal the balances.
C15_DirectPoolPriceInStep ==
    (ui.by = "page" \/ cached = bal) => C15_DirectPoolPrice

\* The pools of a list that hold a token and have no USDC leg.
IndirectPools(t, list) ==
    SelectSeq(list, LAMBDA p :
        /\ toLowerCase(t) \in {toLowerCase(PoolTokenA(p)), toLowerCase(PoolTokenB(p))}
        /\ toLowerCase(USDC_ADDRESS) \notin
               {toLowerCase(PoolTokenA(p)), toLowerCase(PoolTokenB(p))})

OtherToken(p, t) ==
    IF toLowerCase(PoolTokenA(p)) = toLowerCase(t) THEN PoolTokenB(p) ELSE PoolTokenA(p)

\* The price of a token in its first direct pool: normalized USDC balance
\* over normalized token balance.
DirectRatio(t, list) ==
    LET p == Head(DirectPools(t, list))
    IN  RDiv(NormalizedBalance(p, USDC_ADDRESS), NormalizedBalance(p, t))

\* Token a has no direct pool; its first pool without USDC pairs it with a
\* token b whose first direct pool holds both of its tokens; the reads of
\* both pools answer and the a/b pool holds some of a.
TwoHopCase(a, list, failPools) ==
    /\ toLowerCase(a) # toLowerCase(USDC_ADDRESS)
    /\ DirectPools(a, list) = <<>>
    /\ IndirectPools(a, list) # <<>>
    /\ LET q == Head(IndirectPools(a, list))
           b == OtherToken(q, a)
       IN  /\ q \notin failPools
           /\ RGt(NormalizedBalance(q, a), RZero)
           /\ DirectPools(b, list) # <<>>
           /\ LET p == Head(DirectPools(b, list))
              IN  /\ p \notin failPools
                  /\ RGt(NormalizedBalance(p, b), RZero)
                  /\ RGt(NormalizedBalance(p, USDC_ADDRESS), RZero)

\* price(a/b) * price(b/USD) from the balances of the two pools.
TwoHopPrice(a, list) ==
    LET q == Head(IndirectPools(a, list))
        b == OtherToken(q, a)
    IN  RMul(RDiv(NormalizedBalance(q, b), NormalizedBalance(q, a)),
             DirectRatio(b, list))

TwoHopPoolCase(q, a) ==
    /\ ui.by = "storePoolData"
    /\ ui.pool = <<q>>
    /\ cached = bal
    /\ toLowerCase(a) \in {toLowerCase(PoolTokenA(q)), toLowerCase(PoolTokenB(q))}
    /\ TwoHopCase(a, ui.pools, ui.failPools)
    /\ Head(IndirectPools(a, ui.pools)) = q
    /\ RGt(NormalizedBalance(q, OtherToken(q, a)), RZero)

\* C17: the price behind a pool's stored total_liquidity follows the
\* multi-hop step: a token without a direct USDC pool but with a pool against
\* an intermediate token of known price is valued at its ratio against the
\* intermediate times the intermediate's price, nonzero when the reserves
\* are nonzero.
C17_TotalLiquidityUsesTwoHop ==
    \A q \in AllPools, a \in Tokens :
        TwoHopPoolCase(q, a) =>
            LET b == OtherToken(q, a)
            IN  /\ RGt(TwoHopPrice(a, ui.pools), RZero)
                /\ ui.tvl = RAdd(RMul(NormalizedBalance(q, a), TwoHopPrice(a, ui.pools)),
                                 RMul(NormalizedBalance(q, b), DirectRatio(b, ui.pools)))

\* The tokens joined to USDC by a chain of pools of the list.
RECURSIVE RoutedFrom(_, _)
RoutedFrom(S, list) ==
    LET more == {t \in Tokens : \E n \in 1 .. Len(list), u \in S :
                     {toLowerCase(PoolTokenA(list[n])), toLowerCase(PoolTokenB(list[n]))}
                         = {toLowerCase(t), toLowerCase(u)}}
    IN  IF more \subseteq S THEN S ELSE RoutedFrom(S \cup more, list)
Routed(list) == RoutedFrom({USDC_ADDRESS}, list)
Unrouted(t, list) == \A u \in Routed(list) : toLowerCase(u) # toLowerCase(t)

\* What the pools of a list hold, every leg at 1 USD.
RECURSIVE ParityTVL(_, _)
ParityTVL(list, failPools) ==
    IF list = <<>> THEN RZero
    ELSE LET q == Head(list)
             rest == ParityTVL(Tail(list), failPools)
         IN  IF q \in failPools THEN rest
             ELSE RAdd(RAdd(NormalizedBalance(q, PoolTokenA(q)),
                            NormalizedBalance(q, PoolTokenB(q))), rest)

\* The indexer's part of C18: an unrouted token is priced 0, and a pool of
\* unrouted tokens is still computed and stored when it holds liquidity, its
\* legs contributing 0.
C18_IndexerNoRoute ==
    /\ (ui.by = "indexer" /\ Unrouted(ui.token[1], ui.pools))
       => (ui.returns /\ ui.price = RZero)
    /\ (ui.by = "storePoolData" /\ Unrouted(PoolTokenA(ui.pool[1]), ui.pools))
       => /\ ui.row # NullVal
          /\ ui.hasLiquidity =
                 HasLiquidity(NormalizedBalance(ui.pool[1], PoolTokenA(ui.pool[1])),
                              NormalizedBalance(ui.pool[1], PoolTokenB(ui.pool[1])))
          /\ ui.tvl = RZero

\* The page's part of C18: an unrouted token is priced 0, and the aggregate
\* over a list of unrouted pools counts every leg at parity.
C18_PageNoRoute ==
    /\ (ui.by = "page" /\ Unrouted(ui.token[1], ui.pools))
       => (ui.returns /\ ui.price = RZero)
    /\ (ui.by = "metrics" /\ ui.pools # <<>>
          /\ \A n \in 1 .. Len(ui.pools) : Unrouted(PoolTokenA(ui.pools[n]), ui.pools))
       => (ui.returns /\ ui.tvl = ParityTVL(ui.pools, ui.failPools))

\* C18: when the pool list has no route from a token to USDC, the lookup
\* returns 0 and raises nothing; pools of that token are still computed and
\* stored, the leg contributing 0 in the indexer or its reserve at parity in
\* the page's aggregate.
C18_NoRouteIsZero ==
    C18_IndexerNoRoute /\ C18_PageNoRoute

\* A token priced by the first step or the second of the oracle: USDC, or a
\* token whose first direct pool answers its reads and holds some of it.
DirectlyPriced(t, list, failPools) ==
    \/ toLowerCase(t) = toLowerCase(USDC_ADDRESS)
    \/ /\ DirectPools(t, list) # <<>>
       /\ Head(DirectPools(t, list)) \notin failPools
       /\ RGt(NormalizedBalance(Head(DirectPools(t, list)), t), RZero)

BalancePrice(t, list) ==
    IF toLowerCase(t) = toLowerCase(USDC_ADDRESS) THEN ROne ELSE DirectRatio(t, list)

\* (normalized reserveA * priceA) + (normalized reserveB * priceB), reserves
\* and prices from the balances.
Contribution(q, list) ==
    RAdd(RMul(NormalizedBalance(q, PoolTokenA(q)), BalancePrice(PoolTokenA(q), list)),
         RMul(NormalizedBalance(q, PoolTokenB(q)), BalancePrice(PoolTokenB(q), list)))

RECURSIVE SumContributions(_, _)
SumContributions(rest, list) ==
    IF rest = <<>> THEN RZero
    ELSE RAdd(Contribution(Head(rest), list), SumContributions(Tail(rest), list))

\* C19 for the indexer: the total_liquidity storePoolData computes for a
\* pool of directly priced tokens, and 2 and 2000 in scenario A.
C19_IndexerContribution ==
    /\ (/\ ui.by = "storePoolData"
        /\ DirectlyPriced(PoolTokenA(ui.pool[1]), ui.pools, ui.failPools)
        /\ DirectlyPriced(PoolTokenB(ui.pool[1]), ui.pools, ui.failPools))
       => ui.tvl = Contribution(ui.pool[1], ui.pools)
    /\ (ui.by = "storePoolData" /\ ui.pool = <<P1>> /\ bal[P1] = ScenarioA)
       => ui.tvl = <<2000, 1>>
    /\ (ui.by = "indexer" /\ ui.token = <<TKN>> /\ bal[P1] = ScenarioA /\ ui.failPools = {})
       => ui.price = <<2, 1>>

\* C19 for the page: the aggregate of calculateMetrics over a list of pools
\* of directly priced tokens that hold liquidity (the pools fetchFromRPC
\* keeps), and 2 and 2000 in scenario A.
C19_PageContribution ==
    /\ (/\ ui.by = "metrics"
        /\ ui.failPools = {}
        /\ \A n \in 1 .. Len(ui.pools) :
             /\ HasLiquidity(NormalizedBalance(ui.pools[n], PoolTokenA(ui.pools[n])),
                             NormalizedBalance(ui.pools[n], PoolTokenB(ui.pools[n])))
             /\ DirectlyPriced(PoolTokenA(ui.pools[n]), ui.pools, {})
             /\ DirectlyPriced(PoolTokenB(ui.pools[n]), ui.pools, {}))
       => (ui.returns /\ ui.tvl = SumContributions(ui.pools, ui.pools))
    /\ (ui.by = "metrics" /\ bal[P1] = ScenarioA /\ ui.failPools = {})
       => ui.tvl = <<2000, 1>>
    /\ (ui.by = "page" /\ ui.token = <<TKN>> /\ bal[P1] = ScenarioA /\ ui.failPools = {})
       => ui.price = <<2, 1>>

\* C19: a pool's TVL contribution is (normalized reserveA * priceA) +
\* (normalized reserveB * priceB) from the balances read this cycle; a
\* USDC/TKN pool holding raw 1000 * 10^6 USDC and 500 * 10^decimals TKN gives
\* TKN the price 2 and the pool the total liquidity 2000.
C19_ContributionFromBalances ==
    C19_IndexerContribution /\ C19_PageContribution

\* The same with the pool contracts' counters equal to the balances.
C19_ContributionInStep ==
    cached = bal => C19_ContributionFromBalances

\* The rows of the table the page queried that lie in its 30-day window.
WindowRows ==
    {n \in 1 .. Len(ui.snapshot) : ui.snapshot[n].timestamp \div 1000 >= ui.now - WINDOW_S}

\* The USDC leg of a stored event, normalized by 6 decimals: the incoming
\* leg first, else the outgoing one, else nothing.
StableLeg(r) ==
    IF r.token_in = toLowerCase(USDC_ADDRESS)
    THEN Rat(ParseNumber(r.amount_in), Pow10(USDC_DECIMALS))
    ELSE IF r.token_out = toLowerCase(USDC_ADDRESS)
    THEN Rat(ParseNumber(r.amount_out), Pow10(USDC_DECIMALS))
    ELSE RZero

RECURSIVE SumStableLegs(_)
SumStableLegs(S) ==
    IF S = {} THEN RZero
    ELSE LET n == CHOOSE k \in S : TRUE
         IN  RAdd(StableLeg(ui.snapshot[n]), SumStableLegs(S \ {n}))

RowsOfDay(d) == {n \in WindowRows : DateKey(ui.snapshot[n].timestamp) = d}
Bucket(d) ==
    IF d \in DOMAIN ui.dailyMap THEN ui.dailyMap[d] ELSE [volume |-> RZero, fees |-> RZero]

Unconfigured(i) == SUPABASE_URL(i) = "" \/ SUPABASE_KEY(i) = ""

\* What a process that never ran a cycle has left behind: it has read
\* nothing from the chain and no row of any table is its own.
NeverRan(i) ==
    /\ pc[i] \in {"boot", "exited"}
    /\ cyc[i] = NoCycle
    /\ obs[i] = NoObs
    /\ lastProcessedBlock[i] = NullVal
    /\ knownPools[i] = {}

\* C23: a process launched without the store URL or without the store key
\* never executes a cycle: it reads nothing from the chain and, being the
\* only process at work, leaves every table empty.
C23_RefusesToStart ==
    Unconfigured(1) =>
        /\ NeverRan(1)
        /\ swap_events = <<>> /\ pools = <<>> /\ price_history = <<>>

\* The process has left on a missing key, and the chain has moved on with
\* a swap it would have indexed.
C23_ExitedOnMissingKey ==
    /\ pc[1] = "exited"
    /\ SUPABASE_URL(1) # "" /\ SUPABASE_KEY(1) = ""
    /\ \E l \in SwapLogs : minedAt[l] > 0


\* C21: the run loop outlives every error of a cycle: it reaches its sleep
\* again and again, and from every sleep, the one after a cycle that threw
\* included, a next cycle begins.
C21_NextCycleBegins ==
    /\ []<>(pc[1] = "sleeping")
    /\ (pc[1] = "sleeping" /\ obs[1].threw) ~> (pc[1] = "fetched")
    /\ (pc[1] = "sleeping") ~> (pc[1] = "fetched")

\* A cycle has begun after an earlier one threw on the pool-created query:
\* that one had initialised the cursor and could not advance it.
C21_CycleAfterThrow ==
    /\ pc[1] = "fetched"
    /\ lastProcessedBlock[1] # NullVal
    /\ lastProcessedBlock[1][1] < InitHead


InProgress(i) == pc[i] \in {"fetched", "store", "reconcile", "insert", "stalled"}

\* C22: index() is entered only while no execution of it is in progress in
\* the same process, whatever the cycle before did (completed or threw).
C22_OneCycleAtATime ==
    [][\A i \in Instances :
          (pc'[i] = "fetched" /\ cyc'[i].currentBlock = 0 /\ cyc'[i].k = 0
              /\ (pc[i] # "fetched" \/ cyc'[i] # cyc[i] \/ obs'[i] # obs[i]))
          => ~InProgress(i)]_vars

\* The loop is back at its call of index() after a cycle that threw.
C22_LoopBackAfterThrow ==
    /\ pc[1] = "idle"
    /\ obs[1].threw
    /\ lastProcessedBlock[1] # NullVal


(***************************************************************************)
(* Pool discovery inside a cycle.                                          *)
(***************************************************************************)
\* The pools whose PoolCreated log lies in the block range of the cycle.
CreatedInRange(i) ==
    {p \in AllPools : /\ createdAt[p] # 0
                      /\ cyc[i].fromBlock <= createdAt[p]
                      /\ createdAt[p] <= cyc[i].toBlock}

\* index() is past its PoolCreated loop, in a cycle with a block range.
Discovered(i) == pc[i] \in {"store", "reconcile", "insert"} /\ obs[i].advanced

\* C24: past the discovery of a cycle, every pool created inside the
\* cycle's block range is in the known-pool set and in the cycle's pool
\* list (the list storePoolData goes through), and no address is in the
\* list twice, case aside.
C24_CreatedPoolJoinsCycle ==
    \A i \in Instances :
        Discovered(i) =>
            /\ \A p \in CreatedInRange(i) :
                  /\ toLowerCase(p) \in knownPools[i]
                  /\ p \in SeqToSet(cyc[i].pools)
            /\ \A n, m \in 1 .. Len(cyc[i].pools) :
                  n # m => toLowerCase(cyc[i].pools[n]) # toLowerCase(cyc[i].pools[m])


(***************************************************************************)
(* Token metadata.                                                         *)
(***************************************************************************)
InTable(t) == \E addr \in KNOWN_TOKENS : toLowerCase(addr) = toLowerCase(t)

\* C25: a lookup of an address of the static table, in any case, gives the
\* table's entry and reads nothing; a lookup of any other address gives
\* what the contract answered, with the pseudo-symbol in place of a symbol
\* read that failed and 18 in place of a decimals read that failed, and of
\* those only.
C25_TokenInfo ==
    ui.by = "getTokenInfo" =>
        LET t == ui.token[1]
            symbolRead == ui.contract[1]
            decimalsRead == ui.contract[2]
            info == ui.row[1]
        IN  IF InTable(t)
            THEN /\ info = KnownInfo(CHOOSE addr \in KNOWN_TOKENS :
                                        toLowerCase(addr) = toLowerCase(t))
                 /\ ui.reads = {}
            ELSE /\ info.symbol = IF symbolRead = <<>> THEN PseudoSymbol(t)
                                  ELSE symbolRead[1]
                 /\ info.decimals = IF decimalsRead = <<>> THEN DEFAULT_DECIMALS
                                    ELSE decimalsRead[1]


(***************************************************************************)
(* The cursor.                                                             *)
(***************************************************************************)
\* C27: in every step of a process the cursor, once set, stays set and
\* does not go down, and a step that sets it sets it to no more than the
\* head the cycle observed.
C27_CursorMonotonic ==
    [][\A i \in Instances :
          /\ lastProcessedBlock[i] # NullVal =>
                /\ lastProcessedBlock'[i] # NullVal
                /\ lastProcessedBlock'[i][1] >= lastProcessedBlock[i][1]
          /\ lastProcessedBlock'[i] # lastProcessedBlock[i] =>
                lastProcessedBlock'[i][1] <= cyc'[i].currentBlock]_vars


\* The step is the one in which the cycle of process i advances the cursor.
Advances(i) == obs'[i].advanced /\ ~obs[i].advanced

\* C28: a cycle that advances the cursor has queried the blocks from the
\* one after the cursor it found (after head - 10000 when it found none)
\* up to the head it observed, and leaves the cursor at that head; no
\* other step moves a cursor that is set.  Consecutive ranges therefore
\* join without a gap and without an overlap.
C28_RangesJoin ==
    [][\A i \in Instances :
          /\ Advances(i) =>
                /\ cyc'[i].toBlock = head
                /\ lastProcessedBlock'[i] = <<head>>
                /\ cyc'[i].fromBlock =
                      IF lastProcessedBlock[i] = NullVal THEN head - LOOK_BACK + 1
                      ELSE lastProcessedBlock[i][1] + 1
          /\ (lastProcessedBlock[i] # NullVal /\ ~Advances(i)) =>
                lastProcessedBlock'[i] = lastProcessedBlock[i]]_vars


\* The step is the one in which index() of process i throws to run().
Throws(i) == obs'[i].threw /\ ~obs[i].threw

\* C29: the step in which a cycle throws, and the cycle up to it, write no
\* row and do not advance the cursor, which stands just before the range
\* the cycle had computed, if it had; the cursor then stays as it is until
\* the next cycle computes its range, and that range starts right after it:
\* at the block where the range of the cycle that threw started.
C29_ThrowLeavesNoTrace ==
    [][\A i \in Instances :
          /\ Throws(i) =>
                /\ UNCHANGED storeVars
                /\ obs'[i].wrote = {} /\ obs'[i].reconciled = {}
                /\ ~obs'[i].advanced
                /\ cyc'[i].currentBlock # 0 =>
                      lastProcessedBlock'[i] = <<cyc'[i].fromBlock - 1>>
          /\ pc[i] \in {"sleeping", "idle"} =>
                lastProcessedBlock'[i] = lastProcessedBlock[i]
          /\ (pc[i] = "fetched" /\ cyc'[i].currentBlock # 0
                /\ lastProcessedBlock[i] # NullVal) =>
                cyc'[i].fromBlock = lastProcessedBlock[i][1] + 1]_vars


(***************************************************************************)
(* Reconciliation: one pool's failure and the price snapshots.             *)
(***************************************************************************)
\* The step is an iteration of storePoolData's loop by process i.
Iterates(i) ==
    /\ pc[i] = "reconcile"
    /\ pc'[i] # "stalled"
    /\ pc'[i] # pc[i] \/ cyc'[i] # cyc[i]

\* The iteration failed: a read threw into the per-pool catch, or the
\* upsert or delete came back with an error.
IterationFailed(i) == Iterates(i) /\ obs'[i].done = <<>>

=============================================================================
